---- MODULE Spec2Model ----
(***************************************************************************)
(* RLS Guard Dog: the row-level-security rule sets of the repository (the  *)
(* four SQL policy files), the tables they protect, the statements the     *)
(* application issues through them, and the identity lookups that resolve  *)
(* an authenticated user to a role.                                        *)
(*                                                                         *)
(* Rule sets (variable policyFile):                                        *)
(*   "rls"      supabase/rls-policies.sql  (helper functions, class scope) *)
(*   "schema"   supabase/schema.sql        (policies with sub-selects)     *)
(*   "fixed"    "Fixed RLS Policies (No Recursion)"                        *)
(*   "ultimate" "ULTIMATE FIX: Simple RLS Policies without ANY recursion"  *)
(* The later files DROP the policies of the earlier ones and CREATE their  *)
(* own, so exactly one rule set is in force at a time.                     *)
(***************************************************************************)
EXTENDS Integers, FiniteSets, Sequences, TLC

VARIABLES schools, teachers, students, progress, policyFile, writes, response,
          session, user, userSession, loading, inflight, calls,
          class_averages, now, operations, pathname

\* the database, with the rule set in force and the count of writes
dbVars == <<schools, teachers, students, progress, policyFile, writes>>
\* the application around it: the session of the browser's auth client, the
\* AuthProvider's state (user, userSession, loading) and its asynchronous
\* calls in flight, the createProgress calls in flight, the class_averages
\* collection with the clock its timestamps are read from, and the page the
\* browser is on
authVars == <<session, user, userSession, loading, inflight>>
sideVars == <<calls, class_averages, now, operations>>
appVars == <<session, user, userSession, loading, inflight, calls,
             class_averages, now, operations, pathname>>
vars == <<schools, teachers, students, progress, policyFile, writes, response,
          session, user, userSession, loading, inflight, calls,
          class_averages, now, operations, pathname>>

(***************************************************************************)
(* Bounds of the model.                                                    *)
(***************************************************************************)
\* number of successful INSERT/UPDATE/DELETE statements in one behaviour
MaxWrites == 1
\* asynchronous calls of the AuthProvider that can be under way at once
MaxInflight == 2
\* createProgress calls that can be under way at once
MaxCalls == 2
\* ticks of the clock, and bulkWrite calls under way at one time
MaxNow == 1
MaxOperations == 2

(***************************************************************************)
(* Value domains.                                                          *)
(***************************************************************************)
NULL == "NULL"
\* NULL in a uuid column (ids are numbered from 1)
NULLID == 0
\* the result of a statement that Postgres aborts with an error
ERROR == "ERROR"

\* sample-data: Greenwood Elementary (S1), Riverside High School (S2)
Schools == {"S1", "S2"}
Classes == {"5A", "5B"}
\* schema.sql: CREATE TYPE user_role AS ENUM ('student','teacher','head_teacher')
UserRoles == {"student", "teacher", "head_teacher"}
\* schema.sql: CONSTRAINT teachers_role_check CHECK (role IN ('teacher','head_teacher'))
TeacherRoles == {"teacher", "head_teacher"}

\* auth.users ids: John (head teacher), Sarah (teacher), Alice, Charlie,
\* Diana (students) of the sample data, and a signed-up user without profile
Users == {"john", "sarah", "alice", "charlie", "diana", "newbie"}

PolicyFiles == {"rls", "schema", "fixed", "ultimate"}
Tables == {"schools", "teachers", "students", "progress"}

\* of a schools row only the id matters to the policies
SchoolRow(id) == [id |-> id]
TeacherRow(id, u, s, r, c) ==
    [id |-> id, user_id |-> u, school_id |-> s, role |-> r, classes |-> c]
StudentRow(id, u, s, c) ==
    [id |-> id, user_id |-> u, school_id |-> s, class_name |-> c]
ProgressRow(id, st, t, s) ==
    [id |-> id, student_id |-> st, teacher_id |-> t, school_id |-> s]

\* gen_random_uuid(): an id no row of the table carries
SetMax(S) == IF S = {} THEN 0 ELSE CHOOSE m \in S : \A x \in S : x <= m
FreshId(table) == SetMax({r.id : r \in table}) + 1

(***************************************************************************)
(* SQL semantics used by the policies.                                     *)
(***************************************************************************)
\* a = b in SQL is true only when neither side is NULL
SqlEq(a, b) == a # NULL /\ b # NULL /\ a = b

TeacherRowsOf(uid) == {t \in teachers : SqlEq(t.user_id, uid)}
StudentRowsOf(uid) == {s \in students : SqlEq(s.user_id, uid)}

\* RETURN (SELECT col FROM ... WHERE ...): the value of the only row; more
\* than one row raises "more than one row returned by a subquery"
ScalarOf(rows, column) ==
    IF rows = {} THEN NULL
    ELSE IF Cardinality(rows) = 1 THEN (CHOOSE r \in rows : TRUE)[column]
    ELSE ERROR

(***************************************************************************)
(* rls-policies.sql: SECURITY DEFINER helper functions (they read the      *)
(* tables without row filtering).                                          *)
(***************************************************************************)
get_current_user_role(uid) ==
    IF TeacherRowsOf(uid) # {} THEN ScalarOf(TeacherRowsOf(uid), "role")
    ELSE IF StudentRowsOf(uid) # {} THEN "student"
    ELSE "student"     \* "Default to student if no role found"

get_current_user_school_id(uid) ==
    IF TeacherRowsOf(uid) # {} THEN ScalarOf(TeacherRowsOf(uid), "school_id")
    ELSE IF StudentRowsOf(uid) # {} THEN ScalarOf(StudentRowsOf(uid), "school_id")
    ELSE NULL

\* one of the helper functions raises for this user
FnError(uid) ==
    \/ get_current_user_role(uid) = ERROR
    \/ get_current_user_school_id(uid) = ERROR

(***************************************************************************)
(* Row predicates of the policies, one operator per CREATE POLICY.         *)
(* fn = TRUE: the helper functions can be evaluated; fn = FALSE: only the  *)
(* disjuncts that call no helper function count (used when a function      *)
(* raises and Postgres may or may not reach the call).                     *)
(***************************************************************************)

\* ---- rls-policies.sql ---------------------------------------------------
\* "Users can view their own school"
RlsSchoolsSelect(uid, row, fn) ==
    /\ fn
    /\ SqlEq(row.id, get_current_user_school_id(uid))

\* "Head teachers can update their school"
RlsSchoolsUpdate(uid, row, fn) ==
    /\ fn
    /\ SqlEq(row.id, get_current_user_school_id(uid))
    /\ get_current_user_role(uid) = "head_teacher"

\* "Teachers can view teachers in their school"
RlsTeachersSelect(uid, row, fn) ==
    /\ fn
    /\ SqlEq(row.school_id, get_current_user_school_id(uid))
    /\ \/ get_current_user_role(uid) \in {"teacher", "head_teacher"}
       \/ SqlEq(row.user_id, uid)

\* the second policy without its test of the role
RlsTeachersUpdateAnyRole(uid, row, fn) ==
    \/ SqlEq(row.user_id, uid)
    \/ /\ fn
       /\ SqlEq(row.school_id, get_current_user_school_id(uid))

\* "Teachers can update their own profile" OR
\* "Head teachers can update teachers in their school"
RlsTeachersUpdate(uid, row, fn) ==
    \/ SqlEq(row.user_id, uid)
    \/ /\ fn
       /\ SqlEq(row.school_id, get_current_user_school_id(uid))
       /\ get_current_user_role(uid) = "head_teacher"

\* "New teachers can insert their profile"
RlsTeachersInsert(uid, row, fn) ==
    /\ fn
    /\ SqlEq(row.user_id, uid)
    /\ SqlEq(row.school_id, get_current_user_school_id(uid))

\* "Students can view their own profile" OR
\* "Teachers can view students in their school"
RlsStudentsSelect(uid, row, fn) ==
    \/ SqlEq(row.user_id, uid)
    \/ /\ fn
       /\ SqlEq(row.school_id, get_current_user_school_id(uid))
       /\ get_current_user_role(uid) \in {"teacher", "head_teacher"}

\* "Students can update their own profile" OR
\* "Teachers can update students in their school"
RlsStudentsUpdate(uid, row, fn) ==
    \/ SqlEq(row.user_id, uid)
    \/ /\ fn
       /\ SqlEq(row.school_id, get_current_user_school_id(uid))
       /\ get_current_user_role(uid) \in {"teacher", "head_teacher"}

\* "New students can insert their profile"
RlsStudentsInsert(uid, row, fn) ==
    /\ fn
    /\ SqlEq(row.user_id, uid)
    /\ SqlEq(row.school_id, get_current_user_school_id(uid))

\* SELECT id FROM students WHERE user_id = auth.uid()
\* (a sub-select of a policy reads students through the students policies)
RlsOwnStudentIds(uid, fn) ==
    {s.id : s \in {x \in students : RlsStudentsSelect(uid, x, fn) /\ SqlEq(x.user_id, uid)}}

\* the join without its ON t.user_id = auth.uid(): the classes of every
\* teacher row the caller can see
RlsClassStudentIdsAnyTeacher(uid, fn) ==
    {s.id : s \in {x \in students :
        /\ RlsStudentsSelect(uid, x, fn)
        /\ \E t \in teachers :
              /\ RlsTeachersSelect(uid, t, fn)
              /\ SqlEq(x.school_id, t.school_id)
              /\ x.class_name \in t.classes}}

\* SELECT s.id FROM students s JOIN teachers t ON t.user_id = auth.uid()
\*  WHERE s.school_id = t.school_id AND s.class_name = ANY(t.classes)
RlsClassStudentIds(uid, fn) ==
    {s.id : s \in {x \in students :
        /\ RlsStudentsSelect(uid, x, fn)
        /\ \E t \in teachers :
              /\ RlsTeachersSelect(uid, t, fn)
              /\ SqlEq(t.user_id, uid)
              /\ SqlEq(x.school_id, t.school_id)
              /\ x.class_name \in t.classes}}

\* the condition shared by the INSERT, UPDATE and DELETE policies of progress
\* "Teachers can insert/update/delete progress for students in their classes"
RlsProgressWrite(uid, row, fn) ==
    /\ fn
    /\ get_current_user_role(uid) \in {"teacher", "head_teacher"}
    /\ SqlEq(row.school_id, get_current_user_school_id(uid))
    /\ \/ get_current_user_role(uid) = "head_teacher"
       \/ row.student_id \in RlsClassStudentIds(uid, fn)

\* "Students can view their own progress" OR
\* "Teachers can view progress of students in their classes"
RlsProgressSelect(uid, row, fn) ==
    \/ row.student_id \in RlsOwnStudentIds(uid, fn)
    \/ /\ fn
       /\ CASE get_current_user_role(uid) = "head_teacher" ->
                 SqlEq(row.school_id, get_current_user_school_id(uid))
            [] get_current_user_role(uid) = "teacher" ->
                 /\ SqlEq(row.school_id, get_current_user_school_id(uid))
                 /\ row.student_id \in RlsClassStudentIds(uid, fn)
            [] OTHER -> FALSE


\* ---- callers -------------------------------------------------------------
\* the key of the request: a signed-in user's JWT, the anon key without a
\* session, or the service-role key (scripts, edge function, /api/profile)
ANON == "anon"
SERVICE == "service_role"
Callers == Users \cup {ANON, SERVICE}

\* auth.uid(): the user id of the JWT, NULL without a session
AuthUid(caller) == IF caller \in Users THEN caller ELSE NULL
\* auth.role() and auth.jwt() ->> 'role'
AuthRole(caller) ==
    IF caller \in Users THEN "authenticated"
    ELSE IF caller = SERVICE THEN "service_role" ELSE "anon"

\* ---- schema.sql ----------------------------------------------------------
\* SELECT school_id FROM teachers WHERE user_id = auth.uid()
OwnTeacherSchools(caller) == {t.school_id : t \in TeacherRowsOf(AuthUid(caller))}
\* SELECT id FROM teachers WHERE user_id = auth.uid()
OwnTeacherIds(caller) == {t.id : t \in TeacherRowsOf(AuthUid(caller))}
\* SELECT id FROM students WHERE user_id = auth.uid()
OwnStudentIds(caller) == {s.id : s \in StudentRowsOf(AuthUid(caller))}

\* "Service role can manage teachers/students/progress" (FOR ALL)
ServiceRolePolicy(caller) == AuthRole(caller) = "service_role"

\* "Users can view schools" / "Anyone can view schools" /
\* schools_select_policy: USING (true)
AnyoneCanViewSchools(caller, row) == TRUE

\* the two policies without their test of auth.role()
SchemaSchoolsWriteAnyone(caller, row) == TRUE

\* "Authenticated users can insert schools", "Authenticated users can
\* update schools" (schema.sql has no service-role policy on schools)
SchemaSchoolsWrite(caller, row) == AuthRole(caller) = "authenticated"

\* "Teachers can view their own profile" OR
\* "Teachers can view other teachers in same school" OR service role
SchemaTeachersSelect(caller, row) ==
    \/ SqlEq(AuthUid(caller), row.user_id)
    \/ (row.school_id # NULL /\ row.school_id \in OwnTeacherSchools(caller))
    \/ ServiceRolePolicy(caller)

\* "Authenticated users can insert teachers" OR service role
SchemaTeachersInsert(caller, row) ==
    \/ AuthRole(caller) = "authenticated"
    \/ ServiceRolePolicy(caller)

\* "Teachers can update their own profile" OR service role
SchemaTeachersUpdate(caller, row) ==
    \/ SqlEq(AuthUid(caller), row.user_id)
    \/ ServiceRolePolicy(caller)

\* "Students can view their own profile" OR
\* "Teachers can view students in their school" OR service role
SchemaStudentsSelect(caller, row) ==
    \/ SqlEq(AuthUid(caller), row.user_id)
    \/ (row.school_id # NULL /\ row.school_id \in OwnTeacherSchools(caller))
    \/ ServiceRolePolicy(caller)

\* "Authenticated users can insert students" OR service role
SchemaStudentsInsert(caller, row) ==
    \/ AuthRole(caller) = "authenticated"
    \/ ServiceRolePolicy(caller)

\* "Students can update their own profile" OR service role
SchemaStudentsUpdate(caller, row) ==
    \/ SqlEq(AuthUid(caller), row.user_id)
    \/ ServiceRolePolicy(caller)

\* "Students can view their own progress" OR
\* "Teachers can view progress for their school" OR service role
SchemaProgressSelect(caller, row) ==
    \/ (row.student_id # NULLID /\ row.student_id \in OwnStudentIds(caller))
    \/ (row.school_id # NULL /\ row.school_id \in OwnTeacherSchools(caller))
    \/ ServiceRolePolicy(caller)

\* "Teachers can insert progress", "Teachers can update progress they
\* created", "Teachers can delete progress they created": one condition
SchemaProgressWrite(caller, row) ==
    \/ (row.teacher_id # NULLID /\ row.teacher_id \in OwnTeacherIds(caller))
    \/ ServiceRolePolicy(caller)

\* ---- "Fixed RLS Policies (No Recursion)" ---------------------------------
\* "Authenticated users can manage schools" (FOR ALL: SELECT, INSERT,
\* UPDATE and DELETE) OR "Service role can manage all tables"
FixedSchoolsManage(caller, row) ==
    \/ AuthRole(caller) = "authenticated"
    \/ ServiceRolePolicy(caller)

\* teachers, students and progress SELECT/UPDATE/DELETE as in schema.sql;
\* "Teachers can insert progress" also checks the school
FixedProgressInsert(caller, row) ==
    \/ /\ row.teacher_id # NULLID /\ row.teacher_id \in OwnTeacherIds(caller)
       /\ row.school_id # NULL /\ row.school_id \in OwnTeacherSchools(caller)
    \/ ServiceRolePolicy(caller)

\* ---- "ULTIMATE FIX" ------------------------------------------------------
\* schools_modify_policy (FOR ALL): "only service role to modify"
UltimateSchoolsModify(caller, row) == ServiceRolePolicy(caller)

\* teachers_own_record_policy / students_own_record_policy (SELECT),
\* teachers_update_own_policy / students_update_own_policy (UPDATE)
UltimateOwnRecord(caller, row) ==
    \/ SqlEq(AuthUid(caller), row.user_id)
    \/ ServiceRolePolicy(caller)

\* teachers_insert_policy / students_insert_policy
UltimateProfileInsert(caller, row) ==
    \/ AuthRole(caller) = "authenticated"
    \/ ServiceRolePolicy(caller)

\* progress_authenticated_read/write/update/delete_policy
UltimateProgress(caller, row) ==
    \/ AuthRole(caller) = "authenticated"
    \/ ServiceRolePolicy(caller)


(***************************************************************************)
(* The policies in force, by table and command (permissive policies of one *)
(* command are OR-ed; a FOR ALL policy counts for every command).          *)
(***************************************************************************)
SelectUsing(caller, tbl, row, fn) ==
    CASE policyFile = "rls" ->
          (CASE tbl = "schools" -> RlsSchoolsSelect(AuthUid(caller), row, fn)
             [] tbl = "teachers" -> RlsTeachersSelect(AuthUid(caller), row, fn)
             [] tbl = "students" -> RlsStudentsSelect(AuthUid(caller), row, fn)
             [] tbl = "progress" -> RlsProgressSelect(AuthUid(caller), row, fn))
      [] policyFile \in {"schema", "fixed"} ->
          (CASE tbl = "schools" -> AnyoneCanViewSchools(caller, row)
             [] tbl = "teachers" -> SchemaTeachersSelect(caller, row)
             [] tbl = "students" -> SchemaStudentsSelect(caller, row)
             [] tbl = "progress" -> SchemaProgressSelect(caller, row))
      [] policyFile = "ultimate" ->
          (CASE tbl = "schools" -> AnyoneCanViewSchools(caller, row)
             [] tbl = "teachers" -> UltimateOwnRecord(caller, row)
             [] tbl = "students" -> UltimateOwnRecord(caller, row)
             [] tbl = "progress" -> UltimateProgress(caller, row))

InsertCheck(caller, tbl, row, fn) ==
    CASE policyFile = "rls" ->
          \* no INSERT policy on schools
          (CASE tbl = "schools" -> FALSE
             [] tbl = "teachers" -> RlsTeachersInsert(AuthUid(caller), row, fn)
             [] tbl = "students" -> RlsStudentsInsert(AuthUid(caller), row, fn)
             [] tbl = "progress" -> RlsProgressWrite(AuthUid(caller), row, fn))
      [] policyFile = "schema" ->
          (CASE tbl = "schools" -> SchemaSchoolsWrite(caller, row)
             [] tbl = "teachers" -> SchemaTeachersInsert(caller, row)
             [] tbl = "students" -> SchemaStudentsInsert(caller, row)
             [] tbl = "progress" -> SchemaProgressWrite(caller, row))
      [] policyFile = "fixed" ->
          (CASE tbl = "schools" -> FixedSchoolsManage(caller, row)
             [] tbl = "teachers" -> SchemaTeachersInsert(caller, row)
             [] tbl = "students" -> SchemaStudentsInsert(caller, row)
             [] tbl = "progress" -> FixedProgressInsert(caller, row))
      [] policyFile = "ultimate" ->
          (CASE tbl = "schools" -> UltimateSchoolsModify(caller, row)
             [] tbl = "teachers" -> UltimateProfileInsert(caller, row)
             [] tbl = "students" -> UltimateProfileInsert(caller, row)
             [] tbl = "progress" -> UltimateProgress(caller, row))

UpdateUsing(caller, tbl, row, fn) ==
    CASE policyFile = "rls" ->
          (CASE tbl = "schools" -> RlsSchoolsUpdate(AuthUid(caller), row, fn)
             [] tbl = "teachers" -> RlsTeachersUpdate(AuthUid(caller), row, fn)
             [] tbl = "students" -> RlsStudentsUpdate(AuthUid(caller), row, fn)
             [] tbl = "progress" -> RlsProgressWrite(AuthUid(caller), row, fn))
      [] policyFile = "schema" ->
          (CASE tbl = "schools" -> SchemaSchoolsWrite(caller, row)
             [] tbl = "teachers" -> SchemaTeachersUpdate(caller, row)
             [] tbl = "students" -> SchemaStudentsUpdate(caller, row)
             [] tbl = "progress" -> SchemaProgressWrite(caller, row))
      [] policyFile = "fixed" ->
          (CASE tbl = "schools" -> FixedSchoolsManage(caller, row)
             [] tbl = "teachers" -> SchemaTeachersUpdate(caller, row)
             [] tbl = "students" -> SchemaStudentsUpdate(caller, row)
             [] tbl = "progress" -> SchemaProgressWrite(caller, row))
      [] policyFile = "ultimate" ->
          (CASE tbl = "schools" -> UltimateSchoolsModify(caller, row)
             [] tbl = "teachers" -> UltimateOwnRecord(caller, row)
             [] tbl = "students" -> UltimateOwnRecord(caller, row)
             [] tbl = "progress" -> UltimateProgress(caller, row))

\* no file has a DELETE policy for teachers or students: only the FOR ALL
\* service-role policies (absent from rls-policies.sql) cover it; on schools
\* the FOR ALL policies of the fixed file and of the ULTIMATE FIX cover DELETE
DeleteUsing(caller, tbl, row, fn) ==
    CASE policyFile = "rls" ->
          (CASE tbl = "progress" -> RlsProgressWrite(AuthUid(caller), row, fn)
             [] OTHER -> FALSE)
      [] policyFile = "schema" ->
          (CASE tbl = "progress" -> SchemaProgressWrite(caller, row)
             [] tbl = "schools" -> FALSE
             [] OTHER -> ServiceRolePolicy(caller))
      [] policyFile = "fixed" ->
          (CASE tbl = "progress" -> SchemaProgressWrite(caller, row)
             [] tbl = "schools" -> FixedSchoolsManage(caller, row)
             [] OTHER -> ServiceRolePolicy(caller))
      [] policyFile = "ultimate" ->
          (CASE tbl = "progress" -> UltimateProgress(caller, row)
             [] tbl = "schools" -> UltimateSchoolsModify(caller, row)
             [] OTHER -> ServiceRolePolicy(caller))

(***************************************************************************)
(* Sub-selects inside policies. A sub-select on a table is itself filtered *)
(* by that table's SELECT policies; when expanding them comes back to a    *)
(* table whose policies are being expanded, Postgres aborts the statement  *)
(* ("infinite recursion detected in policy for relation ...").             *)
(***************************************************************************)
\* the tables the SELECT policies of tbl sub-select from
SelectSubqueries(pf, tbl) ==
    CASE pf = "rls" ->
           IF tbl = "progress" THEN {"students", "teachers"} ELSE {}
      [] pf \in {"schema", "fixed"} ->
          (CASE tbl = "teachers" -> {"teachers"}
             [] tbl = "students" -> {"teachers"}
             [] tbl = "progress" -> {"students", "teachers"}
             [] OTHER -> {})
      [] OTHER -> {}

\* the tables the INSERT/UPDATE/DELETE policies of tbl sub-select from
WriteSubqueries(pf, tbl) ==
    CASE pf = "rls" ->
           IF tbl = "progress" THEN {"students", "teachers"} ELSE {}
      [] pf \in {"schema", "fixed"} ->
           IF tbl = "progress" THEN {"teachers"} ELSE {}
      [] OTHER -> {}

SubqueryStep(pf, S) == S \cup UNION {SelectSubqueries(pf, t) : t \in S}
\* four tables: three steps reach every table reachable at all
SubqueryClosure(pf, S) == SubqueryStep(pf, SubqueryStep(pf, SubqueryStep(pf, S)))

PolicyRecursion(pf, tbl, cmd, needsSelect) ==
    LET direct == (IF cmd = "SELECT" \/ needsSelect
                     THEN SelectSubqueries(pf, tbl) ELSE {})
                  \cup (IF cmd # "SELECT" THEN WriteSubqueries(pf, tbl) ELSE {})
    IN  \E t \in SubqueryClosure(pf, direct) :
           \/ t \in SubqueryClosure(pf, SelectSubqueries(pf, t))
           \/ (t = tbl /\ SelectSubqueries(pf, tbl) # {})

(***************************************************************************)
(* What a statement on one row can end in: "allow" (the row is read or     *)
(* written), "deny" (filtered out, or "new row violates row-level security *)
(* policy"), "error" (the statement aborts). UPDATE and DELETE carry a     *)
(* WHERE id = ..., so the SELECT policies apply to the old and new row as  *)
(* well; INSERT only when the client asks for the row back (.select()).    *)
(***************************************************************************)
PolicyPass(caller, tbl, cmd, old, new, returning, fn) ==
    CASE cmd = "SELECT" -> SelectUsing(caller, tbl, old, fn)
      [] cmd = "INSERT" -> /\ InsertCheck(caller, tbl, new, fn)
                           /\ (returning => SelectUsing(caller, tbl, new, fn))
      [] cmd = "UPDATE" -> /\ UpdateUsing(caller, tbl, old, fn)
                           /\ SelectUsing(caller, tbl, old, fn)
                           /\ UpdateUsing(caller, tbl, new, fn)
                           /\ SelectUsing(caller, tbl, new, fn)
      [] cmd = "DELETE" -> /\ DeleteUsing(caller, tbl, old, fn)
                           /\ SelectUsing(caller, tbl, old, fn)

\* the outcomes if the service-role key were subject to the policies like
\* any other key
OutcomesNoBypass(caller, tbl, cmd, old, new, returning) ==
    IF PolicyRecursion(policyFile, tbl, cmd, cmd \in {"UPDATE", "DELETE"} \/ returning)
    THEN {"error"}
    ELSE {IF PolicyPass(caller, tbl, cmd, old, new, returning, TRUE)
          THEN "allow" ELSE "deny"}

Outcomes(caller, tbl, cmd, old, new, returning) ==
    \* the service-role key bypasses row level security
    IF caller = SERVICE THEN {"allow"}
    ELSE IF PolicyRecursion(policyFile, tbl, cmd, cmd \in {"UPDATE", "DELETE"} \/ returning)
    THEN {"error"}
    ELSE IF policyFile = "rls" /\ FnError(AuthUid(caller))
    THEN {"error",
          IF PolicyPass(caller, tbl, cmd, old, new, returning, FALSE)
          THEN "allow" ELSE "deny"}
    ELSE {IF PolicyPass(caller, tbl, cmd, old, new, returning, TRUE)
          THEN "allow" ELSE "deny"}

\* the statement certainly goes through
Allowed(caller, tbl, cmd, old, new, returning) ==
    Outcomes(caller, tbl, cmd, old, new, returning) = {"allow"}

\* what SELECT * FROM tbl can return to the caller: [ok, rows]; ok = FALSE
\* when the statement aborts
SelectResults(caller, tbl, table) ==
    IF caller = SERVICE THEN {[ok |-> TRUE, rows |-> table]}
    ELSE IF PolicyRecursion(policyFile, tbl, "SELECT", FALSE)
    THEN {[ok |-> FALSE, rows |-> {}]}
    ELSE IF policyFile = "rls" /\ FnError(AuthUid(caller))
    THEN {[ok |-> FALSE, rows |-> {}],
          [ok |-> TRUE, rows |-> {r \in table : SelectUsing(caller, tbl, r, FALSE)}]}
    ELSE {[ok |-> TRUE, rows |-> {r \in table : SelectUsing(caller, tbl, r, TRUE)}]}

\* supabase-js .single(): the row when exactly one row came back, else an
\* error and no data
Single(res) == res.ok /\ Cardinality(res.rows) = 1
TheRow(res) == CHOOSE r \in res.rows : TRUE

\* .eq(column, value): filtering by a column the table does not have makes
\* the statement fail
TeacherColumns == {"id", "user_id", "school_id", "role", "classes"}
StudentColumns == {"id", "user_id", "school_id", "class_name"}
EqFilter(res, columns, column, value) ==
    IF ~res.ok \/ column \notin columns THEN [ok |-> FALSE, rows |-> {}]
    ELSE [ok |-> TRUE, rows |-> {r \in res.rows : SqlEq(r[column], value)}]

(***************************************************************************)
(* Identity lookups.                                                       *)
(***************************************************************************)
NoProfile == [status |-> "NotFound", role |-> NULL, table |-> NULL, id |-> 0]
FoundProfile(role, table, id) ==
    [status |-> "ok", role |-> role, table |-> table, id |-> id]

\* the lookup with the two queries in the other order: students first
ProfileLookupStudentFirst(teacherRes, studentRes) ==
    IF Single(studentRes)
    THEN FoundProfile("student", "students", TheRow(studentRes).id)
    ELSE IF Single(teacherRes)
    THEN FoundProfile(TheRow(teacherRes).role, "teachers", TheRow(teacherRes).id)
    ELSE NoProfile

\* database.ts getUserProfile: teachers first, then students, else throw
ProfileLookup(teacherRes, studentRes) ==
    IF Single(teacherRes)
    THEN FoundProfile(TheRow(teacherRes).role, "teachers", TheRow(teacherRes).id)
    ELSE IF Single(studentRes)
    THEN FoundProfile("student", "students", TheRow(studentRes).id)
    ELSE NoProfile

getUserProfile(caller, userId) ==
    {ProfileLookup(EqFilter(tr, TeacherColumns, "user_id", userId),
                   EqFilter(sr, StudentColumns, "user_id", userId)) :
        tr \in SelectResults(caller, "teachers", teachers),
        sr \in SelectResults(caller, "students", students)}

\* the role lookup without the fallback to 'student'
RoleLookupNoDefault(teacherRes) ==
    IF Single(teacherRes) THEN TheRow(teacherRes).role ELSE NULL

\* middleware.ts getUserRole: the teacher's role, else 'student'
RoleLookup(teacherRes) ==
    IF Single(teacherRes) THEN TheRow(teacherRes).role ELSE "student"

getUserRole(caller, userId) ==
    {RoleLookup(EqFilter(tr, TeacherColumns, "user_id", userId)) :
        tr \in SelectResults(caller, "teachers", teachers)}

\* GET /api/profile?user_id=...: the same lookup with the service-role key,
\* filtering on the column auth_user_id
ProfileRoute(userId) ==
    {ProfileLookup(EqFilter(tr, TeacherColumns, "auth_user_id", userId),
                   EqFilter(sr, StudentColumns, "auth_user_id", userId)) :
        tr \in SelectResults(SERVICE, "teachers", teachers),
        sr \in SelectResults(SERVICE, "students", students)}


(***************************************************************************)
(* State machine.                                                          *)
(***************************************************************************)
Resp(op, caller, status, role, ids) ==
    [op |-> op, caller |-> caller, status |-> status, role |-> role, ids |-> ids]

\* the application before the first page is opened: nobody signed in, the
\* AuthProvider as its useState calls create it (loading = true) with the
\* getSession() of its effect under way, an empty class_averages collection
NoUserSession == [user_id |-> NULL, role |-> NULL, school_id |-> NULL]
\* a call under way: what it is, the user it is about and, for a query, the
\* key the request was sent with
Task(kind, u) == [kind |-> kind, user |-> u, jwt |-> NULL]
InitApp ==
    /\ session = NULL
    /\ user = NULL
    /\ userSession = NoUserSession
    /\ loading = TRUE
    /\ inflight = {Task("getSession", NULL)}
    /\ calls = {}
    /\ class_averages = {}
    /\ operations = {}
    /\ now = 0
    /\ pathname = <<>>

\* sample-data.sql, reduced: John Smith (head teacher) and Sarah Johnson
\* (teacher of 5A) at school S1; students Alice (S1, 5A), Charlie (S1, 5B)
\* and Diana (S2); progress rows of each student, Diana's with the teacher
\* reference already cleared (teacher_id ... ON DELETE SET NULL)
Init ==
    /\ schools = {SchoolRow("S1"), SchoolRow("S2")}
    /\ teachers = {TeacherRow(1, "john", "S1", "head_teacher", {"5A", "5B"}),
                   TeacherRow(2, "sarah", "S1", "teacher", {"5A"})}
    /\ students = {StudentRow(1, "alice", "S1", "5A"),
                   StudentRow(2, "charlie", "S1", "5B"),
                   StudentRow(3, "diana", "S2", "5A")}
    /\ progress = {ProgressRow(1, 1, 1, "S1"),
                   ProgressRow(2, 1, 2, "S1"),
                   ProgressRow(3, 2, 1, "S1"),
                   ProgressRow(4, 3, NULLID, "S2")}
    /\ policyFile \in {"rls", "schema"}
    /\ writes = 0
    /\ response = Resp("none", ANON, "ok", NULL, {})
    /\ InitApp

\* ---- deployment of the later policy files --------------------------------
\* "Fixed RLS Policies": drops the policies and helper functions of
\* rls-policies.sql and creates its own
ApplyFixedPolicies ==
    /\ policyFile = "rls"
    /\ policyFile' = "fixed"
    /\ response' = Resp("ApplyFixedPolicies", SERVICE, "ok", NULL, {})
    /\ UNCHANGED <<appVars, schools, teachers, students, progress, writes>>

\* "ULTIMATE FIX": drops the policies of schema.sql and of the fixed file
\* and creates its own
ApplyUltimateFix ==
    /\ policyFile \in {"schema", "fixed"}
    /\ policyFile' = "ultimate"
    /\ response' = Resp("ApplyUltimateFix", SERVICE, "ok", NULL, {})
    /\ UNCHANGED <<appVars, schools, teachers, students, progress, writes>>

\* ---- statements on schools -----------------------------------------------
\* school_id ... REFERENCES schools(id): a row that passes the policies but
\* names a school that is not stored aborts the statement
ForeignKeyOk(row) == row.school_id = NULL \/ SchoolRow(row.school_id) \in schools
Constrained(o, row) == IF o = "allow" /\ ~ForeignKeyOk(row) THEN "error" ELSE o

\* a POST to the REST API (JWT or anon key) with a new school
InsertSchool(caller, row) ==
    /\ writes < MaxWrites
    /\ row \notin schools
    /\ \E o \in Outcomes(caller, "schools", "INSERT", row, row, FALSE) :
          /\ schools' = IF o = "allow" THEN schools \cup {row} ELSE schools
          /\ writes' = IF o = "allow" THEN writes + 1 ELSE writes
          /\ response' = Resp("InsertSchool", caller, o, NULL, {})
    /\ UNCHANGED <<appVars, teachers, students, progress, policyFile>>

\* a PATCH of a school's name or address: the id stays
UpdateSchool(caller, old) ==
    /\ writes < MaxWrites
    /\ old \in schools
    /\ \E o \in Outcomes(caller, "schools", "UPDATE", old, old, FALSE) :
          /\ writes' = IF o = "allow" THEN writes + 1 ELSE writes
          /\ response' = Resp("UpdateSchool", caller, o, NULL, {})
    /\ UNCHANGED <<appVars, schools, teachers, students, progress, policyFile>>

\* the rows that go with a school: teachers, students and progress
\* REFERENCES schools(id) ON DELETE CASCADE, progress.student_id ON DELETE
\* CASCADE, progress.teacher_id ON DELETE SET NULL
CascadeTeachers(sid) == {t \in teachers : t.school_id # sid}
CascadeStudents(sid) == {st \in students : st.school_id # sid}
CascadeProgress(sid) ==
    {[e EXCEPT !.teacher_id =
          IF \E t \in teachers : t.id = e.teacher_id /\ t.school_id = sid
          THEN NULLID ELSE e.teacher_id] :
       e \in {x \in progress :
                /\ x.school_id # sid
                /\ ~\E st \in students : st.id = x.student_id /\ st.school_id = sid}}

\* a DELETE of a school through the REST API
DeleteSchool(caller, old) ==
    /\ writes < MaxWrites
    /\ old \in schools
    /\ \E o \in Outcomes(caller, "schools", "DELETE", old, old, FALSE) :
          /\ schools' = IF o = "allow" THEN schools \ {old} ELSE schools
          /\ teachers' = IF o = "allow" THEN CascadeTeachers(old.id) ELSE teachers
          /\ students' = IF o = "allow" THEN CascadeStudents(old.id) ELSE students
          /\ progress' = IF o = "allow" THEN CascadeProgress(old.id) ELSE progress
          /\ writes' = IF o = "allow" THEN writes + 1 ELSE writes
          /\ response' = Resp("DeleteSchool", caller, o, NULL, {})
    /\ UNCHANGED <<appVars, policyFile>>

\* scripts/complete-setup.js createSchool: with the service-role key, insert
\* the school unless a school of that id is stored
createSchool(row) ==
    /\ writes < MaxWrites
    /\ IF row \in schools
       THEN /\ response' = Resp("createSchool", SERVICE, "exists", NULL, {})
            /\ UNCHANGED <<appVars, schools, writes>>
       ELSE \E o \in Outcomes(SERVICE, "schools", "INSERT", row, row, FALSE) :
            /\ schools' = IF o = "allow" THEN schools \cup {row} ELSE schools
            /\ writes' = IF o = "allow" THEN writes + 1 ELSE writes
            /\ response' = Resp("createSchool", SERVICE, o, NULL, {})
    /\ UNCHANGED <<appVars, teachers, students, progress, policyFile>>

\* ---- service-role clients --------------------------------------------------
\* scripts/complete-setup.js createUserWithProfile: after creating the auth
\* user, insert the student or teacher profile with the service-role key
createUserWithProfile(tbl, row) ==
    /\ writes < MaxWrites
    /\ \E p \in Outcomes(SERVICE, tbl, "INSERT", row, row, FALSE) :
          LET o == Constrained(p, row) IN
          /\ teachers' = IF o = "allow" /\ tbl = "teachers"
                          THEN teachers \cup {row} ELSE teachers
          /\ students' = IF o = "allow" /\ tbl = "students"
                          THEN students \cup {row} ELSE students
          /\ writes' = IF o = "allow" THEN writes + 1 ELSE writes
          /\ response' = Resp("createUserWithProfile", SERVICE, o, NULL, {row.user_id})
    /\ UNCHANGED <<appVars, schools, progress, policyFile>>

\* select(...): naming a column the table does not have makes the query fail
SelectColumns(res, columns, wanted) ==
    IF res.ok /\ wanted \subseteq columns THEN res ELSE [ok |-> FALSE, rows |-> {}]

(***************************************************************************)
(* MongoDB: the class_averages collection (lib/mongodb.ts) and the route   *)
(* /api/mongodb/class-averages. No index is ever created on the            *)
(* collection: createIndexes (mongodb.ts 239-258) has no caller.           *)
(***************************************************************************)
\* a property the object does not carry (undefined)
UNDEFINED == -1
\* new Date(): the clock, and the month and year it shows (the ticks of the
\* model fall into one month, September)
getMonth(t) == 8
getFullYear(t) == 2025
\* a || b of JavaScript on numbers: b when a is undefined or 0
OrElse(a, b) == IF a = UNDEFINED \/ a = 0 THEN b ELSE a

ClassAverageFields ==
    {"school_id", "class_name", "subject", "month", "year", "average_score",
     "total_students", "average_percentage", "total_assignments", "calculated_at"}
\* the elements of the model carry their three names always
has(item, field) ==
    field \in {"school_id", "class_name", "subject"} \/ item[field] # UNDEFINED
\* one element of a request body
Item(score, month, year) ==
    [school_id |-> "S1", class_name |-> "5A", subject |-> "Math",
     month |-> month, year |-> year, average_score |-> score,
     total_students |-> 1, average_percentage |-> UNDEFINED,
     total_assignments |-> UNDEFINED, calculated_at |-> UNDEFINED]
\* the request bodies tried: no element, one element (complete, without
\* average_score, without month), two elements of one class and subject
Bodies ==
    {<< >>, <<Item(70, 9, 2025)>>, <<Item(70, UNDEFINED, 2025)>>,
     <<Item(UNDEFINED, 9, 2025)>>, <<Item(70, 9, 2025), Item(80, 9, 2025)>>}

\* the filter of the upsert: school_id, class_name, subject, month, year
filter(average) ==
    <<average.school_id, average.class_name, average.subject,
      average.month, average.year>>
\* _id of a document the server inserts
ObjectId(collection) == SetMax({d._id : d \in collection}) + 1
\* {$set: average} on a stored document: every property the object carries
Set(doc, average) ==
    [f \in DOMAIN doc |->
        IF f \in ClassAverageFields /\ has(average, f) THEN average[f]
        ELSE doc[f]]
\* the document an upsert inserts when nothing matches the filter
Document(collection, average) ==
    [f \in ClassAverageFields \cup {"_id"} |->
        IF f = "_id" THEN ObjectId(collection) ELSE average[f]]
RECURSIVE insertMany(_, _)
insertMany(collection, docs) ==
    IF docs = << >> THEN collection
    ELSE insertMany(collection \cup {Document(collection, Head(docs))}, Tail(docs))
RECURSIVE SeqOf(_)
SeqOf(S) == IF S = {} THEN << >>
            ELSE LET x == CHOOSE y \in S : TRUE IN <<x>> \o SeqOf(S \ {x})

\* POST, route.ts 241-249: calculated_at, month, year, average_percentage and
\* total_assignments of one element
processedPOST(item, currentDate) ==
    [item EXCEPT !.calculated_at = currentDate,
                 !.month = OrElse(item.month, getMonth(currentDate) + 1),
                 !.year = OrElse(item.year, getFullYear(currentDate)),
                 !.average_percentage = (item.average_score * 100) \div 100,
                 !.total_assignments = OrElse(item.total_assignments, 1)]
\* PUT, route.ts 287-293
processedPUT(item, currentDate) ==
    [item EXCEPT !.calculated_at = currentDate,
                 !.month = OrElse(item.month, getMonth(currentDate) + 1),
                 !.year = OrElse(item.year, getFullYear(currentDate))]
requiredFields == {"school_id", "class_name", "subject", "average_score", "total_students"}
invalidItems(body) ==
    {i \in DOMAIN body : \E field \in requiredFields : ~has(body[i], field)}

\* saveClassAverages: one updateOne with upsert per average, calculated_at
\* set once more from the clock; bulkWrite runs them in order
saveClassAverages(route, averages) ==
    /\ Cardinality(operations) < MaxOperations
    /\ operations' = operations \cup
          {[route |-> route, phase |-> "find", hit |-> NULLID,
            ops |-> [i \in DOMAIN averages |->
                        [averages[i] EXCEPT !.calculated_at = now]]]}

\* the route handlers up to the call of bulkWrite; a body the POST handler
\* rejects is answered 400, an empty array 200 without a write
POST(body) ==
    /\ IF invalidItems(body) # {}
       THEN /\ response' = Resp("POST", ANON, "error", NULL, {})
            /\ UNCHANGED operations
       ELSE IF body = << >>
       THEN /\ response' = Resp("POST", ANON, "ok", NULL, {})
            /\ UNCHANGED operations
       ELSE /\ saveClassAverages("POST", [i \in DOMAIN body |-> processedPOST(body[i], now)])
            /\ UNCHANGED response
    /\ UNCHANGED <<dbVars, authVars, calls, class_averages, now, pathname>>
PUT(body) ==
    /\ IF body = << >>
       THEN /\ response' = Resp("PUT", ANON, "ok", NULL, {})
            /\ UNCHANGED operations
       ELSE /\ saveClassAverages("PUT", [i \in DOMAIN body |-> processedPUT(body[i], now)])
            /\ UNCHANGED response
    /\ UNCHANGED <<dbVars, authVars, calls, class_averages, now, pathname>>

\* updateOne with upsert of the server, first half: look for a document that
\* matches the filter (nothing but the default index on _id guards the
\* collection, so the lookup and the write are two steps)
updateOneFind ==
    /\ \E w \in operations :
          /\ w.phase = "find"
          /\ LET matching == {d._id : d \in {x \in class_averages :
                                               filter(x) = filter(Head(w.ops))}} IN
             \E hit \in (IF matching = {} THEN {NULLID} ELSE matching) :
                operations' = (operations \ {w}) \cup
                                 {[w EXCEPT !.phase = "write", !.hit = hit]}
    /\ UNCHANGED <<dbVars, response, authVars, calls, class_averages, now, pathname>>
\* second half: $set on the document found, or insert of a new one; after
\* the last operation the handler answers 200
updateOneWrite ==
    /\ \E w \in operations :
          /\ w.phase = "write"
          /\ class_averages' =
                IF w.hit = NULLID
                THEN class_averages \cup {Document(class_averages, Head(w.ops))}
                ELSE {IF d._id = w.hit THEN Set(d, Head(w.ops)) ELSE d :
                         d \in class_averages}
          /\ IF Len(w.ops) = 1
             THEN /\ operations' = operations \ {w}
                  /\ response' = Resp(w.route, ANON, "ok", NULL, {})
             ELSE /\ operations' = (operations \ {w}) \cup
                        {[w EXCEPT !.phase = "find", !.hit = NULLID, !.ops = Tail(w.ops)]}
                  /\ UNCHANGED response
    /\ UNCHANGED <<dbVars, authVars, calls, now, pathname>>
\* time passes
Tick ==
    /\ now < MaxNow
    /\ now' = now + 1
    /\ UNCHANGED <<dbVars, response, authVars, calls, class_averages, operations, pathname>>

\* edge function calculate-class-averages, POST {school_id}: with the
\* service-role key, select progress with students (class_level, school_id)
\* embedded and .eq('students.school_id', school_id); a filter on an
\* embedded table does not filter the progress rows themselves
calculateClassAverages(school_id) ==
    /\ \E res \in SelectResults(SERVICE, "progress", progress) :
          LET progressData == SelectColumns(res, StudentColumns,
                                            {"class_level", "school_id"})
              \* one average per class of the rows' students (the model's
              \* progress rows carry neither subject nor score)
              classAverages ==
                 SeqOf({[Item(0, getMonth(now) + 1, getFullYear(now))
                            EXCEPT !.school_id = school_id, !.class_name = x.class_name] :
                          x \in {y \in students :
                                   \E r \in progressData.rows : r.student_id = y.id}})
          IN /\ response' = Resp("calculateClassAverages", SERVICE,
                                 IF progressData.ok THEN "ok" ELSE "error", school_id,
                                 {r.id : r \in progressData.rows})
             /\ class_averages' =
                   IF progressData.ok /\ classAverages # << >>
                   THEN insertMany(class_averages, classAverages)
                   ELSE class_averages
    /\ UNCHANGED <<dbVars, authVars, calls, now, operations, pathname>>

\* signup page loadSchools: SELECT * FROM schools, before any session exists
loadSchools(caller) ==
    /\ \E res \in SelectResults(caller, "schools", schools) :
          response' = Resp("loadSchools", caller,
                           IF res.ok THEN "ok" ELSE "error", NULL,
                           {r.id : r \in res.rows})
    /\ UNCHANGED <<appVars, schools, teachers, students, progress, policyFile, writes>>

\* ---- statements on the profile tables (REST API with the user's JWT) ----
InsertTeacher(caller, row) ==
    /\ writes < MaxWrites
    /\ \E p \in Outcomes(caller, "teachers", "INSERT", row, row, FALSE) :
          LET o == Constrained(p, row) IN
          /\ teachers' = IF o = "allow" THEN teachers \cup {row} ELSE teachers
          /\ writes' = IF o = "allow" THEN writes + 1 ELSE writes
          /\ response' = Resp("InsertTeacher", caller, o, NULL, {})
    /\ UNCHANGED <<appVars, schools, students, progress, policyFile>>

UpdateTeacher(caller, old, new) ==
    /\ writes < MaxWrites
    /\ old \in teachers
    /\ \E p \in Outcomes(caller, "teachers", "UPDATE", old, new, FALSE) :
          LET o == Constrained(p, new) IN
          /\ teachers' = IF o = "allow" THEN (teachers \ {old}) \cup {new} ELSE teachers
          /\ writes' = IF o = "allow" THEN writes + 1 ELSE writes
          /\ response' = Resp("UpdateTeacher", caller, o, NULL, {})
    /\ UNCHANGED <<appVars, schools, students, progress, policyFile>>

InsertStudent(caller, row) ==
    /\ writes < MaxWrites
    /\ \E p \in Outcomes(caller, "students", "INSERT", row, row, FALSE) :
          LET o == Constrained(p, row) IN
          /\ students' = IF o = "allow" THEN students \cup {row} ELSE students
          /\ writes' = IF o = "allow" THEN writes + 1 ELSE writes
          /\ response' = Resp("InsertStudent", caller, o, NULL, {})
    /\ UNCHANGED <<appVars, schools, teachers, progress, policyFile>>

UpdateStudent(caller, old, new) ==
    /\ writes < MaxWrites
    /\ old \in students
    /\ \E p \in Outcomes(caller, "students", "UPDATE", old, new, FALSE) :
          LET o == Constrained(p, new) IN
          /\ students' = IF o = "allow" THEN (students \ {old}) \cup {new} ELSE students
          /\ writes' = IF o = "allow" THEN writes + 1 ELSE writes
          /\ response' = Resp("UpdateStudent", caller, o, NULL, {})
    /\ UNCHANGED <<appVars, schools, teachers, progress, policyFile>>

\* ---- statements on progress ----------------------------------------------
\* the INSERT createProgress, handleAddProgress and a REST call end in.
\* named: the payload carries assignment_name; without it a row that passes
\* the policies violates assignment_name ... NOT NULL and the statement aborts
InsertResults(caller, row, returning, named) ==
    {IF o = "allow" /\ ~named THEN "error" ELSE Constrained(o, row) :
        o \in Outcomes(caller, "progress", "INSERT", row, row, returning)}

InsertProgress(op, caller, row, returning, named) ==
    /\ writes < MaxWrites
    /\ \E res \in InsertResults(caller, row, returning, named) :
          /\ progress' = IF res = "allow" THEN progress \cup {row} ELSE progress
          /\ writes' = IF res = "allow" THEN writes + 1 ELSE writes
          /\ response' = Resp(op, caller, res, NULL, {})
    /\ UNCHANGED <<schools, teachers, students, policyFile>>

\* the row with the spread written last,
\* { teacher_id: teacher.id, school_id: teacher.school_id, ...progressData }:
\* the payload's teacher_id and school_id win
SpreadTeacherFirst(progressData, teacher) ==
    [progressData EXCEPT !.id = FreshId(progress)]

\* database.ts createProgress, the row it inserts:
\* { ...progressData, teacher_id: teacher.id, school_id: teacher.school_id };
\* the id is the column default of the INSERT
Spread(progressData, teacher) ==
    [progressData EXCEPT !.id = FreshId(progress),
                         !.teacher_id = teacher.id,
                         !.school_id = teacher.school_id]

\* what createProgress answers when nothing else runs between its steps:
\* getUser(), the SELECT of the caller's teacher row, the INSERT
createProgressResults(caller, progressData) ==
    IF caller \notin Users THEN {"User not authenticated"}
    ELSE UNION {LET teacher == EqFilter(tr, TeacherColumns, "user_id", AuthUid(caller)) IN
                IF ~Single(teacher) THEN {"Teacher profile not found"}
                ELSE InsertResults(caller, Spread(progressData, TheRow(teacher)), TRUE, TRUE) :
                   tr \in SelectResults(caller, "teachers", teachers)}

\* database.ts createProgress run without interruption: teacher_id and
\* school_id are taken from the caller's teacher row, whatever the payload
\* carries
createProgress(caller, progressData) ==
    /\ \E tr \in SelectResults(caller, "teachers", teachers) :
          LET teacher == EqFilter(tr, TeacherColumns, "user_id", AuthUid(caller)) IN
          IF caller \notin Users
          THEN /\ response' = Resp("createProgress", caller, "User not authenticated", NULL, {})
               /\ UNCHANGED dbVars
          ELSE IF ~Single(teacher)
          THEN /\ response' = Resp("createProgress", caller, "Teacher profile not found", NULL, {})
               /\ UNCHANGED dbVars
          ELSE InsertProgress("createProgress", caller,
                              Spread(progressData, TheRow(teacher)), TRUE, TRUE)
    /\ UNCHANGED appVars

\* createProgress as it runs among other requests. First step: getUser() and
\* the SELECT of the caller's teacher row; the call then waits to send its
\* INSERT. alone: what the call answers when run alone from here, under the
\* rule set in force (rules)
createProgressSelect(caller, progressData) ==
    /\ Cardinality(calls) < MaxCalls
    /\ \E tr \in SelectResults(caller, "teachers", teachers) :
          LET teacher == EqFilter(tr, TeacherColumns, "user_id", AuthUid(caller)) IN
          IF caller \notin Users
          THEN /\ response' = Resp("createProgress", caller, "User not authenticated", NULL, {})
               /\ UNCHANGED calls
          ELSE IF ~Single(teacher)
          THEN /\ response' = Resp("createProgress", caller, "Teacher profile not found", NULL, {})
               /\ UNCHANGED calls
          ELSE /\ calls' = calls \cup
                      {[caller |-> caller, progressData |-> progressData,
                        teacher |-> TheRow(teacher),
                        rules |-> policyFile,
                        alone |-> createProgressResults(caller, progressData)]}
               /\ response' = Resp("createProgressSelect", caller, "ok", NULL, {})
    /\ UNCHANGED <<dbVars, authVars, class_averages, now, operations, pathname>>

\* second step: the INSERT, with the teacher row as the call read it
createProgressInsert ==
    /\ \E c \in calls :
          LET row == Spread(c.progressData, c.teacher) IN
          \E res \in InsertResults(c.caller, row, TRUE, TRUE) :
             /\ res = "allow" => writes < MaxWrites
             /\ progress' = IF res = "allow" THEN progress \cup {row} ELSE progress
             /\ writes' = IF res = "allow" THEN writes + 1 ELSE writes
             /\ response' = Resp("createProgress", c.caller, res, NULL, {})
             /\ calls' = calls \ {c}
    /\ UNCHANGED <<schools, teachers, students, policyFile, authVars,
                   class_averages, now, operations, pathname>>

\* teacher dashboard handleAddProgress: student_id, subject and scores only;
\* teacher_id and school_id get the column default, NULL, and there is no
\* assignment_name
handleAddProgress(caller, studentId) ==
    /\ InsertProgress("handleAddProgress", caller,
                      ProgressRow(FreshId(progress), studentId, NULLID, NULL),
                      FALSE, FALSE)
    /\ UNCHANGED appVars

\* a POST to the REST API with the user's JWT and any row
RestInsertProgress(caller, row) ==
    /\ InsertProgress("RestInsertProgress", caller, row, FALSE, TRUE)
    /\ UNCHANGED appVars

\* database.ts updateProgress: .update(updateData).eq('id', id)
updateProgress(caller, old, new) ==
    /\ writes < MaxWrites
    /\ old \in progress /\ new.id = old.id
    /\ \E p \in Outcomes(caller, "progress", "UPDATE", old, new, TRUE) :
          LET o == Constrained(p, new) IN
          /\ progress' = IF o = "allow" THEN (progress \ {old}) \cup {new} ELSE progress
          /\ writes' = IF o = "allow" THEN writes + 1 ELSE writes
          /\ response' = Resp("updateProgress", caller, o, NULL, {old.id})
    /\ UNCHANGED <<appVars, schools, teachers, students, policyFile>>

\* database.ts deleteProgress and the dashboard's handleDeleteProgress:
\* .delete().eq('id', progressId)
deleteProgress(caller, old) ==
    /\ writes < MaxWrites
    /\ old \in progress
    /\ \E o \in Outcomes(caller, "progress", "DELETE", old, old, FALSE) :
          /\ progress' = IF o = "allow" THEN progress \ {old} ELSE progress
          /\ writes' = IF o = "allow" THEN writes + 1 ELSE writes
          /\ response' = Resp("deleteProgress", caller, o, NULL, {old.id})
    /\ UNCHANGED <<appVars, schools, teachers, students, policyFile>>

\* student dashboard fetchStudentData: SELECT ... FROM progress with no
\* filter of its own ("RLS will automatically filter to this student")
fetchStudentData(caller) ==
    /\ \E res \in SelectResults(caller, "progress", progress) :
          response' = Resp("fetchStudentData", caller,
                           IF res.ok THEN "ok" ELSE "error", NULL,
                           {r.id : r \in res.rows})
    /\ UNCHANGED <<appVars, schools, teachers, students, progress, policyFile, writes>>

\* database.ts getTeacherStudentsProgress: read the teacher row of
\* teacherId, then the students of that row's school, for a non-head teacher
\* narrowed to the row's classes ("Regular teachers only see their classes,
\* head teachers see all")
StudentsOfTeacher(caller, teacherId) ==
    {LET teacher == [ok |-> tr.ok, rows |-> {t \in tr.rows : t.id = teacherId}]
         inSchool == IF Single(teacher)
                     THEN EqFilter(sr, StudentColumns, "school_id",
                                   TheRow(teacher).school_id)
                     ELSE [ok |-> FALSE, rows |-> {}]
         data == IF Single(teacher) /\ TheRow(teacher).role # "head_teacher"
                 THEN {x \in inSchool.rows : x.class_name \in TheRow(teacher).classes}
                 ELSE inSchool.rows
     IN  [ok |-> inSchool.ok, rows |-> data] :
        tr \in SelectResults(caller, "teachers", teachers),
        sr \in SelectResults(caller, "students", students)}

getTeacherStudentsProgress(caller, teacherId) ==
    /\ \E res \in StudentsOfTeacher(caller, teacherId) :
          response' = Resp("getTeacherStudentsProgress", caller,
                           IF res.ok THEN "ok" ELSE "error", NULL,
                           {x.id : x \in res.rows})
    /\ UNCHANGED <<appVars, schools, teachers, students, progress, policyFile, writes>>

\* ---- identity lookups ----------------------------------------------------
\* auth-context loadUserProfile -> getUserProfile(supabase, currentUser.id)
LoadUserProfile(caller) ==
    /\ \E r \in getUserProfile(caller, AuthUid(caller)) :
          response' = Resp("getUserProfile", caller, r.status, r.role,
                           IF r.status = "ok" THEN {<<r.table, r.id>>} ELSE {})
    /\ UNCHANGED <<appVars, schools, teachers, students, progress, policyFile, writes>>

\* middleware: getUserRole(supabase, session.user.id)
MiddlewareRole(caller) ==
    /\ \E r \in getUserRole(caller, AuthUid(caller)) :
          response' = Resp("getUserRole", caller, "ok", r, {})
    /\ UNCHANGED <<appVars, schools, teachers, students, progress, policyFile, writes>>

\* GET /api/profile?user_id=userId (no session needed)
GetProfileRoute(userId) ==
    /\ \E r \in ProfileRoute(userId) :
          response' = Resp("ProfileRoute", userId, r.status, r.role,
                           IF r.status = "ok" THEN {<<r.table, r.id>>} ELSE {})
    /\ UNCHANGED <<appVars, schools, teachers, students, progress, policyFile, writes>>

\* ---- middleware -----------------------------------------------------------
\* a pathname is the tuple of its segments: "/" is <<>>, "/auth/login" is
\* <<"auth", "login">>

\* the public routes with the dashboard redirect page among them
publicRoutesWithDashboard ==
    {<<>>, <<"auth", "login">>, <<"auth", "signup">>, <<"auth", "forgot-password">>,
     <<"dashboard">>}

publicRoutes ==
    {<<>>, <<"auth", "login">>, <<"auth", "signup">>, <<"auth", "forgot-password">>}

\* pathname.startsWith('/' + first segment)
StartsWith(path, segment) == Len(path) >= 1 /\ path[1] = segment

\* config.matcher: every path except those that begin with api, _next/static,
\* _next/image or favicon.ico or end in an image file
ImageFiles == {"logo.png"}
matcher(path) ==
    ~ \/ StartsWith(path, "api")
      \/ StartsWith(path, "favicon.ico")
      \/ StartsWith(path, "_next") /\ Len(path) >= 2 /\ path[2] \in {"static", "image"}
      \/ Len(path) >= 1 /\ path[Len(path)] \in ImageFiles

Redirect(to, userRole, params) ==
    [status |-> "redirect", role |-> userRole, ids |-> params \cup {<<"location", to>>}]
Continue(userRole) == [status |-> "next", role |-> userRole, ids |-> {}]

\* middleware(request): the answers it can give to a request for path that
\* carries caller's session cookie (ANON: none)
middlewareResponse(caller, path) ==
    IF caller \notin Users /\ path \notin publicRoutes
    THEN {Redirect(<<"auth", "login">>, NULL, {<<"redirectTo", path>>})}
    ELSE IF caller \in Users /\ StartsWith(path, "auth") /\ Len(path) >= 2
    THEN {Redirect(<<"dashboard">>, NULL, {})}
    ELSE IF caller \in Users
    THEN {IF StartsWith(path, "student") /\ userRole # "student"
          THEN Redirect(<<"teacher">>, userRole, {})
          ELSE IF StartsWith(path, "teacher") /\ userRole = "student"
          THEN Redirect(<<"student">>, userRole, {})
          ELSE Continue(userRole) : userRole \in getUserRole(caller, caller)}
    ELSE {Continue(NULL)}

\* a request for path: the middleware runs when the matcher covers the path,
\* else the request goes to its route untouched
middleware(caller, path) ==
    /\ \E r \in (IF matcher(path) THEN middlewareResponse(caller, path)
                 ELSE {Continue(NULL)}) :
          response' = Resp("middleware", caller, r.status, r.role,
                           r.ids \cup {<<"pathname", path>>})
    /\ UNCHANGED <<dbVars, appVars>>

\* the paths requested: the pages, the profile route of the API and a static
\* image
Paths ==
    publicRoutes \cup {<<"dashboard">>, <<"student">>, <<"teacher">>, <<"admin">>,
                       <<"api", "profile">>, <<"logo.png">>}

\* ---- AuthProvider (auth-context.tsx) -------------------------------------


\* the key of a request the browser sends: the JWT of the auth client's
\* session, the anon key without one
Jwt == IF session = NULL THEN ANON ELSE session

\* loadUserProfile(currentUser) as it is called: the query leaves with the key
\* the auth client holds at that moment
Load(currentUser) == [kind |-> "loadUserProfile", user |-> currentUser, jwt |-> Jwt]

\* the row getUserProfile returned as `profile`
ProfileRow(r) ==
    CHOOSE x \in (IF r.table = "teachers" THEN teachers ELSE students) : x.id = r.id
\* loadUserProfile: setUserSession({user_id, role, school_id: profile.school_id})
\* or, when getUserProfile throws, setUserSession(null)
UserSessionOf(u, r) ==
    IF r.status = "ok"
    THEN [user_id |-> u, role |-> r.role, school_id |-> ProfileRow(r).school_id]
    ELSE NoUserSession

\* a page load: the AuthProvider is created anew and its effect calls
\* getSession(); what the previous page had under way is gone
mount ==
    /\ user' = NULL
    /\ userSession' = NoUserSession
    /\ loading' = TRUE
    /\ inflight' = {Task("getSession", NULL)}
    /\ UNCHANGED <<dbVars, response, session, sideVars, pathname>>

\* the effect's getSession, up to its await of loadUserProfile
getSession ==
    /\ Task("getSession", NULL) \in inflight
    /\ user' = session
    /\ IF session # NULL
       THEN /\ inflight' = (inflight \ {Task("getSession", NULL)})
                           \cup {Load(session)}
            /\ UNCHANGED loading
       ELSE /\ inflight' = inflight \ {Task("getSession", NULL)}
            /\ loading' = FALSE
    /\ UNCHANGED <<dbVars, response, session, userSession, sideVars, pathname>>

\* the onAuthStateChange callback, up to its await of loadUserProfile
onAuthStateChange ==
    /\ \E t \in inflight :
          /\ t.kind = "onAuthStateChange"
          /\ user' = t.user
          /\ IF t.user # NULL
             THEN /\ inflight' = (inflight \ {t}) \cup {Load(t.user)}
                  /\ UNCHANGED <<userSession, loading>>
             ELSE /\ inflight' = inflight \ {t}
                  /\ userSession' = NoUserSession
                  /\ loading' = FALSE
    /\ UNCHANGED <<dbVars, response, session, sideVars, pathname>>

\* loadUserProfile(currentUser) comes back, and the getSession or callback
\* that awaited it goes on to setLoading(false)
loadUserProfile ==
    /\ \E t \in inflight :
          /\ t.kind = "loadUserProfile"
          /\ \E r \in getUserProfile(t.jwt, t.user) :
                userSession' = UserSessionOf(t.user, r)
          /\ inflight' = inflight \ {t}
    /\ loading' = FALSE
    /\ UNCHANGED <<dbVars, response, session, user, sideVars, pathname>>

\* signIn(email, password): setLoading(true), then await signInWithPassword
signIn(u) ==
    /\ Cardinality(inflight) < MaxInflight
    /\ loading' = TRUE
    /\ inflight' = inflight \cup {Task("signIn", u)}
    /\ UNCHANGED <<dbVars, response, session, user, userSession, sideVars, pathname>>

\* the auth client calls the callback as soon as it announces an event: no
\* second event is announced while the callback of one has yet to start
Announced == \E t \in inflight : t.kind = "onAuthStateChange"

\* signInWithPassword settles: an error (catch: setLoading(false), rethrow)
\* or a session, which the auth client announces to onAuthStateChange
signInWithPassword ==
    /\ \E t \in inflight :
          /\ t.kind = "signIn"
          /\ \/ /\ loading' = FALSE
                /\ inflight' = inflight \ {t}
                /\ UNCHANGED session
             \/ /\ ~Announced
                /\ session' = t.user
                /\ inflight' = (inflight \ {t}) \cup {Task("onAuthStateChange", t.user)}
                /\ UNCHANGED loading
    /\ UNCHANGED <<dbVars, response, user, userSession, sideVars, pathname>>

\* signUp(email, password, userData): setLoading(true), then await signUp
signUp(u) ==
    /\ Cardinality(inflight) < MaxInflight
    /\ loading' = TRUE
    /\ inflight' = inflight \cup {Task("signUp", u)}
    /\ UNCHANGED <<dbVars, response, session, user, userSession, sideVars, pathname>>

\* auth.signUp settles: an error (catch: setLoading(false), rethrow); a new
\* user with a session, announced to onAuthStateChange; or, where the
\* project asks for a confirmed email address, a new user without a session
\* and without an event
authSignUp ==
    /\ \E t \in inflight :
          /\ t.kind = "signUp"
          /\ \/ /\ loading' = FALSE
                /\ inflight' = inflight \ {t}
                /\ UNCHANGED session
             \/ /\ ~Announced
                /\ session' = t.user
                /\ inflight' = (inflight \ {t}) \cup {Task("onAuthStateChange", t.user)}
                /\ UNCHANGED loading
             \/ /\ inflight' = inflight \ {t}
                /\ UNCHANGED <<session, loading>>
    /\ UNCHANGED <<dbVars, response, user, userSession, sideVars, pathname>>

\* signOut(): setLoading(true), then await auth.signOut
signOut ==
    /\ Cardinality(inflight) < MaxInflight
    /\ loading' = TRUE
    /\ inflight' = inflight \cup {Task("signOut", NULL)}
    /\ UNCHANGED <<dbVars, response, session, user, userSession, sideVars, pathname>>

\* auth.signOut settles: an error (catch: setLoading(false), rethrow), or the
\* session is removed and SIGNED_OUT announced to onAuthStateChange
authSignOut ==
    /\ \E t \in inflight :
          /\ t.kind = "signOut"
          /\ \/ /\ loading' = FALSE
                /\ inflight' = inflight \ {t}
                /\ UNCHANGED session
             \/ /\ ~Announced
                /\ session' = NULL
                /\ inflight' = (inflight \ {t}) \cup {Task("onAuthStateChange", NULL)}
                /\ UNCHANGED loading
    /\ UNCHANGED <<dbVars, response, user, userSession, sideVars, pathname>>

\* admin page: "Only allow head teachers to access this page", decided from
\* the AuthProvider's userSession
AdminPage ==
    /\ response' = Resp("AdminPage", userSession.user_id,
                        IF userSession = NoUserSession \/ userSession.role # "head_teacher"
                        THEN "deny" ELSE "allow",
                        userSession.role, {})
    /\ UNCHANGED <<dbVars, appVars>>


\* ---- pages ------------------------------------------------------------------
\* the pages a signed-in user starts from
StartPaths == {<< >>, <<"dashboard">>, <<"student">>, <<"teacher">>}
\* NextResponse.redirect(new URL(to, request.url)): the Location of the answer
Location(r) == CHOOSE to \in Paths : <<"location", to>> \in r.ids
\* the page of pathname is on the screen: no request for it is under way
Displayed == ~\E t \in inflight : t.kind \in {"request", "push"}
\* userSession.role === 'student' ? '/student' : '/teacher'
dashboardPath == IF userSession.role = "student" THEN <<"student">> ELSE <<"teacher">>

\* a user whose browser holds a session (signed in on an earlier visit)
\* opens a page: a full page load, a new AuthProvider
openPage(u, path) ==
    /\ session = NULL
    /\ session' = u
    /\ pathname' = path
    /\ user' = NULL
    /\ userSession' = NoUserSession
    /\ loading' = TRUE
    /\ inflight' = {Task("request", NULL)}
    /\ UNCHANGED <<dbVars, response, sideVars>>
\* window.location.href = href: the page is left, a full page load follows
location(href) ==
    /\ pathname' = href
    /\ user' = NULL
    /\ userSession' = NoUserSession
    /\ loading' = TRUE
    /\ inflight' = {Task("request", NULL)}
    /\ UNCHANGED <<dbVars, response, session, sideVars>>
\* router.push(href): the page changes under the AuthProvider of the layout
push(href) ==
    /\ pathname' = href
    /\ inflight' = inflight \cup {Task("push", NULL)}
    /\ UNCHANGED <<dbVars, response, session, user, userSession, loading, sideVars>>

\* the server answers the request for pathname: the middleware redirects (the
\* browser asks for the new path), or the page is served; after a full page
\* load the AuthProvider mounts
request ==
    /\ \E t \in inflight :
          /\ t.kind \in {"request", "push"}
          /\ \E r \in (IF matcher(pathname) THEN middlewareResponse(Jwt, pathname)
                       ELSE {Continue(NULL)}) :
                IF r.status = "redirect"
                THEN /\ pathname' = Location(r)
                     /\ UNCHANGED <<dbVars, response, authVars, sideVars>>
                ELSE IF t.kind = "request"
                THEN mount
                ELSE /\ inflight' = inflight \ {t}
                     /\ UNCHANGED <<dbVars, response, session, user, userSession,
                                    loading, sideVars, pathname>>

\* the effect of the landing page
HomePage ==
    /\ Displayed /\ pathname = << >>
    /\ ~loading /\ user # NULL /\ userSession # NoUserSession
    /\ push(dashboardPath)
\* the effect of /dashboard: to the login page without a user, to the
\* dashboard of the role with a userSession, nothing otherwise
DashboardPage ==
    /\ Displayed /\ pathname = <<"dashboard">>
    /\ ~loading
    /\ IF user = NULL THEN push(<<"auth", "login">>)
       ELSE userSession # NoUserSession /\ push(dashboardPath)
\* the effect of /teacher: students are sent away
TeacherDashboard ==
    /\ Displayed /\ pathname = <<"teacher">>
    /\ ~loading /\ userSession # NoUserSession
    /\ userSession.role = "student"
    /\ location(<<"student">>)
\* the effect of /student: everybody else is sent away
StudentDashboard ==
    /\ Displayed /\ pathname = <<"student">>
    /\ ~loading /\ userSession # NoUserSession
    /\ userSession.role # "student"
    /\ location(<<"teacher">>)

\* ---- inputs ---------------------------------------------------------------
\* a third school, not in the sample data
NewSchoolRows == {SchoolRow("S3")}
\* statements that reach the REST API with a JWT or with the anon key alone
RestCallers == Users \cup {ANON}
\* a new teacher row: any user, school and role; it claims every class
NewTeacherRows ==
    {TeacherRow(FreshId(teachers), u, s, r, Classes) :
        u \in Users, s \in Schools, r \in TeacherRoles}
\* an UPDATE of one column of a row (user_id and id stay)
TeacherPatches(old) ==
    ({[old EXCEPT !.school_id = s] : s \in Schools}
     \cup {[old EXCEPT !.role = r] : r \in TeacherRoles}
     \cup {[old EXCEPT !.classes = c] : c \in SUBSET Classes}) \ {old}
\* a new student row: any user and school, class 5A
NewStudentRows ==
    {StudentRow(FreshId(students), u, s, "5A") : u \in Users, s \in Schools}
StudentPatches(old) ==
    ({[old EXCEPT !.school_id = s] : s \in Schools}
     \cup {[old EXCEPT !.class_name = c] : c \in Classes}) \ {old}
\* the profile the setup script creates for a new auth user
NewUserProfiles ==
    {<<"teachers", r>> : r \in {x \in NewTeacherRows : x.user_id = "newbie"}}
    \cup {<<"students", r>> : r \in {x \in NewStudentRows : x.user_id = "newbie"}}
StudentIds == {s.id : s \in students}
TeacherIds == {t.id : t \in teachers}
NewProgressRows ==
    {ProgressRow(FreshId(progress), st, t, s) :
        st \in StudentIds, t \in TeacherIds \cup {NULLID}, s \in Schools}
\* an UPDATE of the score alone leaves the modelled columns as they are
ProgressPatches(old) ==
    {[old EXCEPT !.student_id = st] : st \in StudentIds}
    \cup {[old EXCEPT !.teacher_id = t] : t \in TeacherIds \cup {NULLID}}
    \cup {[old EXCEPT !.school_id = s] : s \in Schools}

Next ==
    \/ ApplyFixedPolicies
    \/ ApplyUltimateFix
    \/ \E caller \in RestCallers, row \in NewSchoolRows : InsertSchool(caller, row)
    \/ \E caller \in RestCallers, old \in schools : UpdateSchool(caller, old)
    \/ \E caller \in RestCallers, old \in schools : DeleteSchool(caller, old)
    \/ \E row \in NewSchoolRows \cup schools : createSchool(row)
    \/ \E caller \in RestCallers : loadSchools(caller)
    \/ \E np \in NewUserProfiles : createUserWithProfile(np[1], np[2])
    \/ \E s \in Schools : calculateClassAverages(s)
    \/ \E caller \in Users, row \in NewTeacherRows : InsertTeacher(caller, row)
    \/ \E caller \in Users, old \in teachers :
          \E new \in TeacherPatches(old) : UpdateTeacher(caller, old, new)
    \/ \E caller \in Users, row \in NewStudentRows : InsertStudent(caller, row)
    \/ \E caller \in Users, old \in students :
          \E new \in StudentPatches(old) : UpdateStudent(caller, old, new)
    \/ \E caller \in Users, st \in StudentIds :
          createProgress(caller, ProgressRow(NULLID, st, NULLID, NULL))
    \/ \E caller \in Users, st \in StudentIds : handleAddProgress(caller, st)
    \/ \E caller \in Users, row \in NewProgressRows : RestInsertProgress(caller, row)
    \/ \E caller \in Users, old \in progress :
          \E new \in ProgressPatches(old) : updateProgress(caller, old, new)
    \/ \E caller \in Users, old \in progress : deleteProgress(caller, old)
    \/ \E caller \in Users : fetchStudentData(caller)
    \/ \E caller \in Users, t \in TeacherIds : getTeacherStudentsProgress(caller, t)
    \/ \E caller \in Users : LoadUserProfile(caller)
    \/ \E caller \in Users : MiddlewareRole(caller)
    \/ \E userId \in Users : GetProfileRoute(userId)

Spec == Init /\ [][Next]_vars

\* the identity lookups and the statements on the profile tables alone
NextIdentity ==
    \/ ApplyFixedPolicies
    \/ ApplyUltimateFix
    \/ \E caller \in Users, row \in NewTeacherRows : InsertTeacher(caller, row)
    \/ \E caller \in Users, old \in teachers :
          \E new \in TeacherPatches(old) : UpdateTeacher(caller, old, new)
    \/ \E caller \in Users, row \in NewStudentRows : InsertStudent(caller, row)
    \/ \E caller \in Users, old \in students :
          \E new \in StudentPatches(old) : UpdateStudent(caller, old, new)
    \/ \E caller \in Users : LoadUserProfile(caller)
    \/ \E caller \in Users : MiddlewareRole(caller)
    \/ \E userId \in Users : GetProfileRoute(userId)

SpecIdentity == Init /\ [][NextIdentity]_vars

\* the statements on schools alone
NextSchools ==
    \/ ApplyFixedPolicies
    \/ ApplyUltimateFix
    \/ \E caller \in RestCallers, row \in NewSchoolRows : InsertSchool(caller, row)
    \/ \E caller \in RestCallers, old \in schools : UpdateSchool(caller, old)
    \/ \E caller \in RestCallers, old \in schools : DeleteSchool(caller, old)
    \/ \E row \in NewSchoolRows \cup schools : createSchool(row)
    \/ \E caller \in RestCallers : loadSchools(caller)

SpecSchools == Init /\ [][NextSchools]_vars

\* the clients that hold the service-role key: setup script, edge function
\* and GET /api/profile, under each rule set
NextService ==
    \/ ApplyFixedPolicies
    \/ ApplyUltimateFix
    \/ \E row \in NewSchoolRows \cup schools : createSchool(row)
    \/ \E np \in NewUserProfiles : createUserWithProfile(np[1], np[2])
    \/ \E s \in Schools : calculateClassAverages(s)
    \/ \E userId \in Users : GetProfileRoute(userId)

SpecService == Init /\ [][NextService]_vars

\* the statements that change rows a decision reads: updates of the profile
\* tables, insertion and deletion of a school, under each rule set
NextDecide ==
    \/ ApplyFixedPolicies
    \/ ApplyUltimateFix
    \/ \E caller \in Users, old \in teachers :
          \E new \in TeacherPatches(old) : UpdateTeacher(caller, old, new)
    \/ \E caller \in Users, old \in students :
          \E new \in StudentPatches(old) : UpdateStudent(caller, old, new)
    \/ \E caller \in RestCallers, row \in NewSchoolRows : InsertSchool(caller, row)
    \/ \E caller \in RestCallers, old \in schools : DeleteSchool(caller, old)

SpecDecide == Init /\ [][NextDecide]_vars

\* the users who sign in at the browser: a head teacher, a student and a
\* user who signed up and has no profile row
AuthUsers == {"john", "alice", "newbie"}

\* one browser session against the database: sign in, the profile the
\* AuthProvider loads, the admin page, and updates of teacher rows arriving
\* through the REST API meanwhile
NextSession ==
    \/ ApplyFixedPolicies
    \/ ApplyUltimateFix
    \/ \E caller \in Users, old \in teachers :
          \E new \in TeacherPatches(old) : UpdateTeacher(caller, old, new)
    \/ getSession
    \/ \E u \in AuthUsers : signIn(u)
    \/ signInWithPassword
    \/ onAuthStateChange
    \/ loadUserProfile
    \/ AdminPage

SpecSession == Init /\ [][NextSession]_vars

\* what a createProgress call carries: the student, and whatever teacher_id
\* and school_id the caller put into it
CreateProgressRequests ==
    {ProgressRow(NULLID, 1, t, s) : t \in {NULLID, 1}, s \in {NULL, "S2"}}
\* a teacher, a student and a request without a session
CreateProgressCallers == {"sarah", "alice", ANON}

\* createProgress calls, whole and in two steps, among updates of teacher
\* rows by the teachers
NextProgress ==
    \/ ApplyFixedPolicies
    \/ ApplyUltimateFix
    \/ \E caller \in {"john", "sarah"}, old \in teachers :
          \E new \in TeacherPatches(old) : UpdateTeacher(caller, old, new)
    \/ \E caller \in CreateProgressCallers, pd \in CreateProgressRequests :
          createProgress(caller, pd)
    \/ \E caller \in CreateProgressCallers, pd \in CreateProgressRequests :
          createProgressSelect(caller, pd)
    \/ createProgressInsert

SpecProgress == Init /\ [][NextProgress]_vars

\* requests to the web application with or without a session, under each
\* rule set
NextRoutes ==
    \/ ApplyFixedPolicies
    \/ ApplyUltimateFix
    \/ \E caller \in RestCallers, path \in Paths : middleware(caller, path)

SpecRoutes == Init /\ [][NextRoutes]_vars

(***************************************************************************)
(* Principals. The profile a user's requests are decided with: the teacher *)
(* row (role, school_id, classes) or the student row ('student',           *)
(* school_id) getUserProfile returns.                                      *)
(***************************************************************************)
HasOneProfile(u) ==
    Cardinality(TeacherRowsOf(u)) + Cardinality(StudentRowsOf(u)) = 1
TheTeacher(u) == CHOOSE t \in TeacherRowsOf(u) : TRUE
TheStudent(u) == CHOOSE st \in StudentRowsOf(u) : TRUE
PrincipalRole(u) ==
    IF TeacherRowsOf(u) # {} THEN TheTeacher(u).role ELSE "student"
PrincipalSchool(u) ==
    IF TeacherRowsOf(u) # {} THEN TheTeacher(u).school_id
    ELSE TheStudent(u).school_id
PrincipalClasses(u) ==
    IF TeacherRowsOf(u) # {} THEN TheTeacher(u).classes ELSE {}
\* the class of the student a progress row is about
ClassesOfStudent(e) == {st.class_name : st \in {x \in students : x.id = e.student_id}}

\* the statement can go through
MayAllow(caller, tbl, cmd, old, new, returning) ==
    "allow" \in Outcomes(caller, tbl, cmd, old, new, returning)

\* the (entry, command) pairs a user's statements on stored progress rows
\* go through for
ProgressAccess(u) ==
    {<<e.id, "SELECT">> :
        e \in {x \in progress : MayAllow(u, "progress", "SELECT", x, x, FALSE)}}
    \cup
    {<<e.id, "UPDATE">> :
        e \in {x \in progress : MayAllow(u, "progress", "UPDATE", x, x, TRUE)}}
    \cup
    {<<e.id, "DELETE">> :
        e \in {x \in progress : MayAllow(u, "progress", "DELETE", x, x, FALSE)}}

ProfileWrites == {"InsertTeacher", "UpdateTeacher", "InsertStudent", "UpdateStudent"}

(***************************************************************************)
(* Properties of the progress rules.                                       *)
(***************************************************************************)
\* the read rule of the specification for principal u and entry e
ReadInScope(u, e) ==
    /\ SqlEq(e.school_id, PrincipalSchool(u))
    /\ \/ PrincipalRole(u) = "head_teacher"
       \/ /\ PrincipalRole(u) = "teacher"
          /\ ClassesOfStudent(e) \cap PrincipalClasses(u) # {}
       \/ /\ PrincipalRole(u) = "student"
          /\ e.student_id = TheStudent(u).id

\* C1: for every principal and every progress entry, Read is allowed only
\* if the entry is of the principal's school and the principal is its head
\* teacher, a teacher of the student's class, or the student the entry is
\* about (the "only if" half of the claimed equivalence).
C1_ReadOnlyInScope ==
    \A u \in Users : HasOneProfile(u) =>
        \A e \in progress :
            MayAllow(u, "progress", "SELECT", e, e, FALSE) => ReadInScope(u, e)

\* C2: tenant isolation: for every principal and every progress entry whose
\* school_id differs from the principal's, Read, Create, Update and Delete
\* are all denied, in every reachable state.
C2_TenantIsolation ==
    \A u \in Users : HasOneProfile(u) =>
        /\ \A e \in progress : ~SqlEq(e.school_id, PrincipalSchool(u)) =>
              /\ ~MayAllow(u, "progress", "SELECT", e, e, FALSE)
              /\ ~MayAllow(u, "progress", "UPDATE", e, e, TRUE)
              /\ ~MayAllow(u, "progress", "DELETE", e, e, FALSE)
        /\ \A row \in NewProgressRows : ~SqlEq(row.school_id, PrincipalSchool(u)) =>
              ~MayAllow(u, "progress", "INSERT", row, row, FALSE)

\* C3: no privilege escalation: a Create or Update of a teacher or student
\* profile that is approved for a student or non-head teacher p never makes
\* readable or writable to p a progress entry that was not so before.
C3_NoEscalation ==
    [][\A u \in Users :
          (/\ HasOneProfile(u)
           /\ PrincipalRole(u) \in {"student", "teacher"}
           /\ response'.op \in ProfileWrites
           /\ response'.caller = u
           /\ response'.status = "allow")
          => ProgressAccess(u)' \subseteq ProgressAccess(u)]_vars

\* the create rule of the specification for principal u and new row
CreateInScope(u, row) ==
    /\ PrincipalRole(u) \in {"teacher", "head_teacher"}
    /\ SqlEq(row.school_id, PrincipalSchool(u))
    /\ \/ PrincipalRole(u) = "head_teacher"
       \/ ClassesOfStudent(row) \cap PrincipalClasses(u) # {}

\* C4: Create of a progress entry is allowed only if the principal is a
\* teacher or head teacher, the entry is of the principal's school, and the
\* principal is head teacher or teaches the student's class; every other
\* Create request is denied.
C4_CreateOnlyInScope ==
    \A u \in Users : HasOneProfile(u) =>
        \A row \in NewProgressRows :
            MayAllow(u, "progress", "INSERT", row, row, FALSE) => CreateInScope(u, row)

\* C5: a head teacher's Update or Delete of any progress entry of the head
\* teacher's school is allowed, whoever's teacher_id the entry carries.
C5_HeadTeacherWrites ==
    \A u \in Users : (HasOneProfile(u) /\ PrincipalRole(u) = "head_teacher") =>
        \A e \in progress : SqlEq(e.school_id, PrincipalSchool(u)) =>
            /\ Allowed(u, "progress", "UPDATE", e, e, TRUE)
            /\ Allowed(u, "progress", "DELETE", e, e, FALSE)

\* C6: a non-head teacher's Update or Delete of a progress entry is allowed
\* only when the entry's teacher_id is the teacher's own profile, and a
\* student's Update or Delete is always denied.
C6_OwnEntriesOnly ==
    \A u \in Users : (HasOneProfile(u) /\ PrincipalRole(u) # "head_teacher") =>
        \A e \in progress :
            (\/ MayAllow(u, "progress", "UPDATE", e, e, TRUE)
             \/ MayAllow(u, "progress", "DELETE", e, e, FALSE))
            => /\ PrincipalRole(u) = "teacher"
               /\ e.teacher_id = TheTeacher(u).id

\* C7: the list of progress entries a student's dashboard receives holds
\* exactly the entries whose student_id is the student's own profile.
C7_StudentSeesOwnOnly ==
    (/\ response.op = "fetchStudentData"
     /\ response.status = "ok"
     /\ HasOneProfile(response.caller)
     /\ PrincipalRole(response.caller) = "student")
    => response.ids =
          {e.id : e \in {x \in progress : x.student_id = TheStudent(response.caller).id}}

\* C8: every stored progress entry has the school_id of its student and,
\* when teacher_id is set, of that teacher.
C8_SchoolInvariant ==
    \A e \in progress :
        /\ \A st \in students : st.id = e.student_id => e.school_id = st.school_id
        /\ \A t \in teachers : t.id = e.teacher_id => e.school_id = t.school_id

(***************************************************************************)
(* Properties of the identity lookups.                                     *)
(***************************************************************************)
\* the user has rows in both profile tables
BothProfiles(u) == TeacherRowsOf(u) # {} /\ StudentRowsOf(u) # {}
\* one teacher row and one student row
OneOfEach(u) ==
    Cardinality(TeacherRowsOf(u)) = 1 /\ Cardinality(StudentRowsOf(u)) = 1
NoProfileRows(u) == TeacherRowsOf(u) = {} /\ StudentRowsOf(u) = {}
IdentityLookups == {"getUserProfile", "getUserRole", "ProfileRoute"}

C10_NotFoundSurfaced ==
    (response.op \in IdentityLookups /\ NoProfileRows(response.caller))
    => (response.status = "NotFound" /\ response.role # "student")

\* C10 as the code has it: for a user with neither profile getUserProfile
\* and GET /api/profile fail with "User profile not found" and build no
\* principal, while the middleware's getUserRole and get_current_user_role
\* answer 'student' and get_current_user_school_id answers NULL.
C10_NotFoundOrStudent ==
    \A u \in Users : NoProfileRows(u) =>
        /\ getUserProfile(u, u) = {NoProfile}
        /\ ProfileRoute(u) = {NoProfile}
        /\ getUserRole(u, u) = {"student"}
        /\ get_current_user_role(u) = "student"
        /\ get_current_user_school_id(u) = NULL
        /\ (response.caller = u /\ response.op \in {"getUserProfile", "ProfileRoute"})
              => (response.status = "NotFound" /\ response.role = NULL)
        /\ (response.caller = u /\ response.op = "getUserRole")
              => (response.status = "ok" /\ response.role = "student")

\* the middleware took a user without any profile for a student
C10_DefaultedToStudent ==
    /\ response.op = "getUserRole"
    /\ NoProfileRows(response.caller)
    /\ response.role = "student"

(***************************************************************************)
(* Properties of the decision as a whole.                                  *)
(***************************************************************************)
\* C11: fail-closed on role: a user for whom no role is found (no teacher
\* row and no student row, so none of student, teacher, head_teacher) is
\* denied every statement on stored teacher, student and progress rows and
\* every insert of a progress row.
C11_UnknownRoleDenied ==
    \A u \in Users : NoProfileRows(u) =>
        /\ \A t \in teachers :
              /\ ~MayAllow(u, "teachers", "SELECT", t, t, FALSE)
              /\ ~MayAllow(u, "teachers", "UPDATE", t, t, FALSE)
        /\ \A st \in students :
              /\ ~MayAllow(u, "students", "SELECT", st, st, FALSE)
              /\ ~MayAllow(u, "students", "UPDATE", st, st, FALSE)
        /\ \A e \in progress :
              /\ ~MayAllow(u, "progress", "SELECT", e, e, FALSE)
              /\ ~MayAllow(u, "progress", "UPDATE", e, e, TRUE)
              /\ ~MayAllow(u, "progress", "DELETE", e, e, FALSE)
        /\ \A row \in NewProgressRows :
              ~MayAllow(u, "progress", "INSERT", row, row, FALSE)

\* C12: an operation no rule provides for is denied for every principal:
\* in particular no signed-in or anonymous caller's DELETE of a school, of a
\* teacher profile or of a student profile goes through.
C12_NoDeleteOfSchoolOrProfile ==
    \A c \in RestCallers :
        /\ \A s \in schools : ~MayAllow(c, "schools", "DELETE", s, s, FALSE)
        /\ \A t \in teachers : ~MayAllow(c, "teachers", "DELETE", t, t, FALSE)
        /\ \A st \in students : ~MayAllow(c, "students", "DELETE", st, st, FALSE)

\* the outcomes of a user's statements on one stored row
RowDecisions(u, tbl, r) ==
    <<Outcomes(u, tbl, "SELECT", r, r, FALSE),
      Outcomes(u, tbl, "UPDATE", r, r, tbl = "progress"),
      Outcomes(u, tbl, "DELETE", r, r, FALSE)>>
\* the profile rows a user's principal is built from
ProfileRowsOf(u) == <<TeacherRowsOf(u), StudentRowsOf(u)>>
\* the student rows a progress row refers to
StudentOfEntry(e) == {x \in students : x.id = e.student_id}

\* a statement has one outcome, each time the same
SameDecisions(before, after) ==
    /\ after = before
    /\ \A i \in 1..3 : Cardinality(before[i]) = 1

\* C13: the decision is deterministic and stateless: when a statement of
\* any caller changes stored data but leaves the profile of a principal (a
\* user with exactly one profile) and a stored row (for a progress row also
\* its student) as they are, each of the principal's statements on that row
\* has one outcome, the same before and after.
C13_SameRequestSameDecision ==
    [][(/\ <<schools, teachers, students, progress>>' #
                 <<schools, teachers, students, progress>>
        /\ policyFile' = policyFile)
       => \A u \in Users :
            (HasOneProfile(u) /\ ProfileRowsOf(u)' = ProfileRowsOf(u))
            => /\ \A r \in teachers \cap teachers' :
                     SameDecisions(RowDecisions(u, "teachers", r),
                                   RowDecisions(u, "teachers", r)')
               /\ \A r \in students \cap students' :
                     SameDecisions(RowDecisions(u, "students", r),
                                   RowDecisions(u, "students", r)')
               /\ \A r \in progress \cap progress' :
                     StudentOfEntry(r)' = StudentOfEntry(r)
                     => SameDecisions(RowDecisions(u, "progress", r),
                                      RowDecisions(u, "progress", r)')
      ]_vars

\* under rls-policies.sql a profile row was changed by its user while a
\* teacher of the same school kept the profile
C13_OtherCallChangedData ==
    /\ policyFile = "rls"
    /\ response.op = "UpdateTeacher"
    /\ response.status = "allow"
    /\ \E u \in Users :
          /\ u # response.caller
          /\ HasOneProfile(u)
          /\ PrincipalRole(u) = "teacher"
          /\ \E e \in progress : MayAllow(u, "progress", "SELECT", e, e, FALSE)

SqlCommands == {"SELECT", "INSERT", "UPDATE", "DELETE"}

\* C14: evaluating the rules of a table never re-enters the policy
\* evaluation of a table being decided: under the rule set in force no
\* statement on any table runs into policy recursion, and no principal's
\* read of the own teacher row aborts.
C14_NoPolicyReentry ==
    /\ \A tbl \in Tables : \A cmd \in SqlCommands :
          ~PolicyRecursion(policyFile, tbl, cmd, cmd \in {"UPDATE", "DELETE"})
    /\ \A u \in Users : HasOneProfile(u) =>
          \A t \in TeacherRowsOf(u) :
             "error" \notin Outcomes(u, "teachers", "SELECT", t, t, FALSE)

(***************************************************************************)
(* Properties of the service role.                                         *)
(***************************************************************************)
ServiceWrites == {"createSchool", "createUserWithProfile"}

C16_UpdateOwnProfileOnly ==
    \A u \in Users : HasOneProfile(u) =>
        /\ \A t \in teachers : \A new \in TeacherPatches(t) \cup {t} :
              MayAllow(u, "teachers", "UPDATE", t, new, FALSE) => t.user_id = u
        /\ \A st \in students : \A new \in StudentPatches(st) \cup {st} :
              MayAllow(u, "students", "UPDATE", st, new, FALSE) => st.user_id = u

\* C16 as the code has it: an Update of a teacher profile is allowed only
\* to its user and, under rls-policies.sql, to a head teacher of the
\* profile's school; an Update of a student profile only to its user and,
\* under rls-policies.sql, to a teacher or head teacher of the student's
\* school. Under rls-policies.sql and the ULTIMATE FIX the user's update of
\* the own profile goes through, and under rls-policies.sql so do the head
\* teacher's update of a teacher and a teacher's update of a student of the
\* school.
C16_UpdateOwnOrSchoolStaff ==
    \A u \in Users : HasOneProfile(u) =>
        /\ \A t \in teachers :
              LET staff == /\ policyFile = "rls"
                           /\ PrincipalRole(u) = "head_teacher"
                           /\ t.school_id = PrincipalSchool(u) IN
              /\ \A new \in TeacherPatches(t) \cup {t} :
                    MayAllow(u, "teachers", "UPDATE", t, new, FALSE)
                    => (t.user_id = u \/ staff)
              /\ (policyFile \in {"rls", "ultimate"} /\ t.user_id = u)
                    => Allowed(u, "teachers", "UPDATE", t, t, FALSE)
              /\ staff => Allowed(u, "teachers", "UPDATE", t, t, FALSE)
        /\ \A st \in students :
              LET staff == /\ policyFile = "rls"
                           /\ PrincipalRole(u) \in TeacherRoles
                           /\ st.school_id = PrincipalSchool(u) IN
              /\ \A new \in StudentPatches(st) \cup {st} :
                    MayAllow(u, "students", "UPDATE", st, new, FALSE)
                    => (st.user_id = u \/ staff)
              /\ (policyFile \in {"rls", "ultimate"} /\ st.user_id = u)
                    => Allowed(u, "students", "UPDATE", st, st, FALSE)
              /\ staff => Allowed(u, "students", "UPDATE", st, st, FALSE)

\* a head teacher's update of another teacher's profile went through
C16_HeadTeacherUpdatedTeacher ==
    /\ response.op = "UpdateTeacher"
    /\ response.status = "allow"
    /\ HasOneProfile(response.caller)
    /\ PrincipalRole(response.caller) = "head_teacher"
    /\ TeacherRow(2, "sarah", "S1", "teacher", {"5A"}) \notin teachers

\* C17: a principal's Read of a teacher profile is allowed if and only if
\* the profile is the principal's own, or the principal is a teacher or
\* head teacher of the profile's school: a student reads no teacher's
\* profile and a teacher none of another school.
C17_TeacherProfileRead ==
    \A u \in Users : HasOneProfile(u) =>
        \A t \in teachers :
            Allowed(u, "teachers", "SELECT", t, t, FALSE)
            <=> \/ t.user_id = u
                \/ /\ PrincipalRole(u) \in TeacherRoles
                   /\ t.school_id = PrincipalSchool(u)

\* the student profiles the specification lets principal u read
StudentsInScope(u) ==
    CASE PrincipalRole(u) = "student" -> StudentRowsOf(u)
      [] PrincipalRole(u) = "head_teacher" ->
           {x \in students : x.school_id = PrincipalSchool(u)}
      [] PrincipalRole(u) = "teacher" ->
           {x \in students : /\ x.school_id = PrincipalSchool(u)
                              /\ x.class_name \in PrincipalClasses(u)}

\* C18: the student profiles a principal can read are: for a student the
\* own profile only, for a head teacher exactly the students of the school,
\* for a non-head teacher exactly the students of the school whose
\* class_name is one of the teacher's classes; and this is the list
\* getTeacherStudentsProgress hands a teacher.
C18_StudentVisibility ==
    /\ \A u \in Users : HasOneProfile(u) =>
          SelectResults(u, "students", students) =
             {[ok |-> TRUE, rows |-> StudentsInScope(u)]}
    /\ (/\ response.op = "getTeacherStudentsProgress"
        /\ response.status = "ok"
        /\ HasOneProfile(response.caller)
        /\ PrincipalRole(response.caller) \in TeacherRoles)
       => response.ids = {x.id : x \in StudentsInScope(response.caller)}

\* C19: Read of a school is allowed for every principal, with all schools
\* in scope: each principal's SELECT on schools returns every school.
C19_EveryoneReadsAllSchools ==
    \A u \in Users : HasOneProfile(u) =>
        /\ SelectResults(u, "schools", schools) = {[ok |-> TRUE, rows |-> schools]}
        /\ (response.op = "loadSchools" /\ response.caller = u)
              => response.ids = {r.id : r \in schools}

\* C20 as claimed: Create and Update of a school are allowed for every
\* authenticated principal, whatever the role and the own school, and
\* denied only without a session.
C20_AuthenticatedWriteSchools ==
    /\ \A u \in Users : HasOneProfile(u) =>
          /\ \A row \in NewSchoolRows \ schools :
                Allowed(u, "schools", "INSERT", row, row, FALSE)
          /\ \A r \in schools : Allowed(u, "schools", "UPDATE", r, r, FALSE)
    /\ \A row \in NewSchoolRows : ~MayAllow(ANON, "schools", "INSERT", row, row, FALSE)
    /\ \A r \in schools : ~MayAllow(ANON, "schools", "UPDATE", r, r, FALSE)

\* C20 as the code has it: Create and Update of a school are denied
\* without a session under every rule set. For a signed-in user with one
\* profile or none: under schema.sql and the fixed file both are allowed,
\* whatever the role and the school; under rls-policies.sql Create is
\* denied and Update is allowed exactly to a head teacher for the own
\* school; under the ULTIMATE FIX both are denied.
C20_SchoolWritesByRuleSet ==
    \A c \in RestCallers : (c = ANON \/ HasOneProfile(c) \/ NoProfileRows(c)) =>
        LET open == c \in Users /\ policyFile \in {"schema", "fixed"}
            headOf(r) == /\ policyFile = "rls"
                         /\ c \in Users
                         /\ HasOneProfile(c)
                         /\ PrincipalRole(c) = "head_teacher"
                         /\ PrincipalSchool(c) = r.id
        IN  /\ \A row \in NewSchoolRows :
                  Outcomes(c, "schools", "INSERT", row, row, FALSE) =
                     {IF open THEN "allow" ELSE "deny"}
            /\ \A r \in schools :
                  Outcomes(c, "schools", "UPDATE", r, r, FALSE) =
                     {IF open \/ headOf(r) THEN "allow" ELSE "deny"}
            /\ (response.caller = c /\ response.op = "InsertSchool")
                  => response.status = (IF open THEN "allow" ELSE "deny")

\* a student created a school
C20_StudentCreatedSchool ==
    /\ response.op = "InsertSchool"
    /\ response.status = "allow"
    /\ HasOneProfile(response.caller)
    /\ PrincipalRole(response.caller) = "student"
    /\ SchoolRow("S3") \in schools


(***************************************************************************)
(* C21. No stale principal: a decision is computed from the role and       *)
(* school_id the identity store holds at the time of the request, never    *)
(* from values cached at an earlier request. Whenever the admin page       *)
(* decides for a user with one profile, the role and school_id it decides  *)
(* with are those of the stored profile.                                   *)
(***************************************************************************)
C21_NoStalePrincipal ==
    (/\ response.op = "AdminPage"
     /\ userSession # NoUserSession
     /\ HasOneProfile(userSession.user_id))
    => /\ userSession.role = PrincipalRole(userSession.user_id)
       /\ userSession.school_id = PrincipalSchool(userSession.user_id)

(***************************************************************************)
(* C22. Invocations that run concurrently do not affect each other: each   *)
(* returns what it returns when run alone on the same inputs. Whenever a   *)
(* createProgress call that ran among other requests has sent its INSERT,  *)
(* its answer is one the call gives when run alone from the state it       *)
(* started in (the rule set in force being the same).                      *)
(***************************************************************************)
C22_ConcurrentAsAlone ==
    [][\A c \in calls \ calls' :
          c.rules = policyFile => response'.status \in c.alone]_vars

(***************************************************************************)
(* C27. createProgress inserts a row whose teacher_id and school_id are    *)
(* the id and the school_id of the calling user's own teacher row as the   *)
(* call read it, whatever teacher_id or school_id the payload carries;     *)
(* without a session or without a teacher row of the caller it fails with  *)
(* an error and inserts nothing.                                           *)
(***************************************************************************)
C27_TeacherAndSchoolFromProfile ==
    [][response'.op = "createProgress"
       => /\ \A r \in progress' \ progress :
                IF calls' = calls
                THEN \E t \in TeacherRowsOf(response'.caller) :
                        r.teacher_id = t.id /\ r.school_id = t.school_id
                ELSE \A c \in calls \ calls' :
                        /\ c.teacher.user_id = response'.caller
                        /\ r.teacher_id = c.teacher.id
                        /\ r.school_id = c.teacher.school_id
          /\ (response'.caller \notin Users \/ TeacherRowsOf(response'.caller) = {})
             => /\ progress' = progress
                /\ response'.status = (IF response'.caller \notin Users
                                       THEN "User not authenticated"
                                       ELSE "Teacher profile not found")
      ]_vars

\* sarah's createProgress went through: the row carries her teacher id and
\* her school, none of the payloads does
C27_PayloadOverridden ==
    /\ response.op = "createProgress"
    /\ response.caller = "sarah"
    /\ response.status = "allow"
    /\ \E r \in progress : r.id = 5 /\ r.teacher_id = 2 /\ r.school_id = "S1"
    /\ \A pd \in CreateProgressRequests : pd.teacher_id # 2 /\ pd.school_id # "S1"

(***************************************************************************)
(* C23. Route protection: every request without a session to a path that   *)
(* is not a public route is answered with a redirect to /auth/login that   *)
(* carries redirectTo = the requested path, and every request with a       *)
(* session to a path under /auth/ is redirected to /dashboard.             *)
(***************************************************************************)
RequestedPath == CHOOSE path \in Paths : <<"pathname", path>> \in response.ids
RedirectedTo(path) ==
    response.status = "redirect" /\ <<"location", path>> \in response.ids
RouteProtected ==
    /\ (/\ response.caller \notin Users
        /\ RequestedPath \notin {<<>>, <<"auth", "login">>, <<"auth", "signup">>,
                                 <<"auth", "forgot-password">>})
       => /\ RedirectedTo(<<"auth", "login">>)
          /\ <<"redirectTo", RequestedPath>> \in response.ids
    /\ (response.caller \in Users /\ StartsWith(RequestedPath, "auth")
        /\ Len(RequestedPath) >= 2)
       => RedirectedTo(<<"dashboard">>)

C23_RouteProtection ==
    response.op = "middleware" => RouteProtected

\* the same of the requests the matcher hands to the middleware; a request
\* for a path the matcher leaves out is not redirected
C23_MatchedRouteProtection ==
    response.op = "middleware"
    => IF matcher(RequestedPath) THEN RouteProtected
       ELSE response.status = "next"

\* a request for /student without a session was sent to the login page
C23_SentToLogin ==
    /\ response.op = "middleware"
    /\ response.caller = ANON
    /\ RequestedPath = <<"student">>
    /\ RedirectedTo(<<"auth", "login">>)
    /\ <<"redirectTo", <<"student">>>> \in response.ids

(***************************************************************************)
(* C24. Role-based routing: with a session, a request to a path under      *)
(* /teacher by a user whose role is student is redirected to /student, and *)
(* a request to a path under /student by a user whose role is teacher or   *)
(* head_teacher is redirected to /teacher; neither dashboard is served to  *)
(* the wrong role.                                                         *)
(***************************************************************************)
C24_RoleBasedRouting ==
    (/\ response.op = "middleware"
     /\ response.caller \in Users
     /\ HasOneProfile(response.caller))
    => /\ (StartsWith(RequestedPath, "teacher")
           /\ PrincipalRole(response.caller) = "student")
          => RedirectedTo(<<"student">>)
       /\ (StartsWith(RequestedPath, "student")
           /\ PrincipalRole(response.caller) \in TeacherRoles)
          => RedirectedTo(<<"teacher">>)

(***************************************************************************)
(* C25. Scope and single-record decisions agree: a stored record is in the *)
(* list a principal gets if and only if the single-record Read of that     *)
(* record is allowed to the same principal. For a teacher or head teacher  *)
(* the students listed by getTeacherStudentsProgress for the own teacher   *)
(* id are exactly the student rows the teacher may read one by one.        *)
(***************************************************************************)
C25_ScopeAgreesWithSingleRead ==
    \A u \in Users :
       (HasOneProfile(u) /\ PrincipalRole(u) \in TeacherRoles)
       => \A res \in StudentsOfTeacher(u, TheTeacher(u).id) :
             res.ok => res.rows = {x \in students :
                                     Allowed(u, "students", "SELECT", x, x, FALSE)}

\* the class-averages route and the edge function, with the clock
NextAverages ==
    \/ \E body \in Bodies : POST(body)
    \/ \E body \in {<< >>, <<Item(80, 9, 2025)>>} : PUT(body)
    \/ updateOneFind
    \/ updateOneWrite
    \/ Tick
    \/ \E s \in Schools : calculateClassAverages(s)
SpecAverages == Init /\ [][NextAverages]_vars

(***************************************************************************)
(* C26. After any sequence of class-average saves (the POST and PUT route, *)
(* the edge function run any number of times), class_averages holds at     *)
(* most one record per (school_id, class_name, subject, month, year).      *)
(***************************************************************************)
C26_OneRecordPerKey ==
    \A d1, d2 \in class_averages : filter(d1) = filter(d2) => d1 = d2

\* the AuthProvider of one page against a database that stays as it is:
\* sign-in, sign-up and sign-out calls and the callbacks they set off. The
\* calls of the user may or may not come; what the auth client, the
\* database and the callbacks have under way does finish
NextAuth ==
    \/ getSession
    \/ \E u \in AuthUsers : signIn(u)
    \/ signInWithPassword
    \/ \E u \in AuthUsers : signUp(u)
    \/ authSignUp
    \/ signOut
    \/ authSignOut
    \/ onAuthStateChange
    \/ loadUserProfile
SpecAuth ==
    /\ Init
    /\ [][NextAuth]_vars
    /\ WF_vars(getSession)
    /\ WF_vars(signInWithPassword)
    /\ WF_vars(authSignUp)
    /\ WF_vars(authSignOut)
    /\ WF_vars(onAuthStateChange)
    /\ WF_vars(loadUserProfile)

(***************************************************************************)
(* C28. In every reachable state of the AuthProvider, under any            *)
(* interleaving of the initial getSession, the onAuthStateChange callbacks *)
(* and the completions of loadUserProfile calls, userSession is null       *)
(* whenever user is null, and when both are set userSession.user_id is the *)
(* id of user.                                                             *)
(***************************************************************************)
C28_UserSessionOfUser ==
    /\ user = NULL => userSession = NoUserSession
    /\ (user # NULL /\ userSession # NoUserSession) => userSession.user_id = user

(***************************************************************************)
(* C30. Every signIn, signUp or signOut call that sets loading to true is  *)
(* eventually followed by loading = false, when the call fails and when it *)
(* succeeds.                                                               *)
(***************************************************************************)
C30_LoadingEnds == loading ~> ~loading

\* a signed-in user opens a page and the middleware, the AuthProvider and the
\* pages' effects take it from there; meanwhile somebody may sign in in
\* another tab of the browser, which the AuthProvider of this page hears of
NextPages ==
    \/ \E u \in Users, path \in StartPaths : openPage(u, path)
    \/ request
    \/ getSession
    \/ loadUserProfile
    \/ \E u \in AuthUsers : signIn(u)
    \/ signInWithPassword
    \/ onAuthStateChange
    \/ HomePage
    \/ DashboardPage
    \/ TeacherDashboard
    \/ StudentDashboard
SpecPages == Init /\ [][NextPages]_vars

\* the dashboards the chain may end on for the signed-in user
DashboardsOf(u) ==
    IF ~HasOneProfile(u) THEN {<<"student">>, <<"teacher">>}
    ELSE IF PrincipalRole(u) = "student" THEN {<<"student">>}
    ELSE {<<"teacher">>}
\* the chain has come to rest: no request, callback or query is under way
\* and no effect of the page has a redirect to make
AtRest ==
    /\ inflight = {}
    /\ ~loading
    /\ ~ENABLED (HomePage \/ DashboardPage \/ TeacherDashboard \/ StudentDashboard)

(***************************************************************************)
(* C29. For an authenticated user, starting from /, /dashboard, /student   *)
(* or /teacher, the chain of middleware redirects and page-level redirects *)
(* terminates on the dashboard of the role: whenever it has come to rest   *)
(* the page is /student for a student and /teacher otherwise (one of the   *)
(* two for a user with a session but no profile).                          *)
(***************************************************************************)
C29_ChainEndsOnDashboard ==
    (session # NULL /\ AtRest) => pathname \in DashboardsOf(session)
====
